---- MODULE Spec2Model ----
(***************************************************************************)
(* Release-notes generator: the categorizer and the markdown renderer of   *)
(* app.py / scheduler.py, and the markdown -> Notion block converter of    *)
(* notion_integration.py.                                                  *)
(*                                                                         *)
(* Text is modelled as a sequence of characters, each character a          *)
(* one-element string; a character outside ASCII is written as the name    *)
(* of its code point ("U+2705" is the check-mark glyph), one element per   *)
(* code point.  Python's None is the value None below, which is no text.   *)
(***************************************************************************)
EXTENDS Naturals, Sequences, FiniteSets

VARIABLES
  issues,           \* the issue list handed to generate_release_notes
  release_version,  \* the release identifier handed to it
  now,              \* the clock reading datetime.now() gave the last render
  markdown,         \* the markdown string: the renderer's result, the converter's input
  blocks,           \* the block list _markdown_to_notion_blocks returned
  pc,               \* which step of the pipeline has run
  self,             \* the NotionIntegration object: database_id, parent_page_id
  sessions,         \* each browser session: its st.session_state and the call it is in
  failures,         \* the client calls that have raised so far
  invocations,      \* the calls of the integration that have been made so far
  pages,            \* the Notion pages made so far, in the order of their making:
                    \* the parent and the blocks of each
  calls,            \* the calls to a service made by the operation that ended
                    \* in the last step, in order; none after any other step
  result,           \* what that operation returned or raised
  LINEAR_API_KEY,   \* the tracker key the scheduler read from the environment
  files,            \* releases/changelog-<label>.md for each release label
  today,            \* the day datetime.now().date() gives
  processes         \* each process that runs the scheduler's job: the place its
                    \* run of generate_daily_release_notes has reached

\* the Notion page and the scheduler's files, which the pipeline from the
\* issues to the blocks neither reads nor writes
elsewhere == <<self, sessions, failures, invocations, pages, calls, result,
               LINEAR_API_KEY, files, today, processes>>

vars == <<issues, release_version, now, markdown, blocks, pc, elsewhere>>

----------------------------------------------------------------------------
(* Python values and string helpers *)

None == << "None" >>

\* Python truthiness of an optional string: None and "" are false.
Truthy(v) == v # None /\ v # << >>

\* Mutant of Or: "a if a is not None else b", which keeps an empty string.
Or_NoneOnly(a, b) == IF a # None THEN a ELSE b

\* a or b
Or(a, b) == IF Truthy(a) THEN a ELSE b

\* s.startswith(p)
StartsWith(s, p) == Len(s) >= Len(p) /\ SubSeq(s, 1, Len(p)) = p

\* s[n:]
From(s, n) == SubSeq(s, n + 1, Len(s))

----------------------------------------------------------------------------
(* Configuration tables *)

\* LINEAR_WORKSPACE_URL, at its default
LINEAR_WORKSPACE_URL ==
  <<"h","t","t","p","s",":","/","/","l","i","n","e","a","r",".","a","p","p","/","y","o","u","r","-","w","o","r","k","s","p","a","c","e">>

\* state name -> glyph, in declaration order
STATUS_EMOJIS ==
  << << <<"C","o","m","p","l","e","t","e","d">>,
        <<"U+2705">> >>,
     << <<"D","o","n","e">>,
        <<"U+2705">> >>,
     << <<"F","i","x","e","d">>,
        <<"U+2705">> >>,
     << <<"R","e","s","o","l","v","e","d">>,
        <<"U+2705">> >>,
     << <<"S","t","a","r","t","e","d">>,
        <<"U+1F536">> >>,
     << <<"I","n"," ","P","r","o","g","r","e","s","s">>,
        <<"U+1F536">> >>,
     << <<"C","o","d","e"," ","R","e","v","i","e","w">>,
        <<"U+1F536">> >>,
     << <<"R","e","a","d","y"," ","f","o","r"," ","P","r","o","d","u","c","t">>,
        <<"U+1F50D">> >>,
     << <<"P","r","o","d","u","c","t"," ","R","e","v","i","e","w">>,
        <<"U+1F50D">> >>,
     << <<"R","e","a","d","y"," ","f","o","r"," ","T","e","s","t","i","n","g">>,
        <<"U+1F50D">> >>,
     << <<"T","e","s","t","i","n","g">>,
        <<"U+1F50D">> >>,
     << <<"B","a","c","k","l","o","g">>,
        <<"U+25FB","U+FE0F">> >>,
     << <<"U","n","s","t","a","r","t","e","d">>,
        <<"U+25FB","U+FE0F">> >>,
     << <<"T","o","d","o">>,
        <<"U+25FB","U+FE0F">> >> >>

\* label -> category heading, in declaration order (a dict keeps insertion order)
CATEGORY_MAPPINGS ==
  << << <<"B","u","g">>,
        <<"U+1F41B"," ","B","u","g"," ","F","i","x","e","s">> >>,
     << <<"F","e","a","t","u","r","e">>,
        <<"U+2728"," ","N","e","w"," ","F","e","a","t","u","r","e","s">> >>,
     << <<"I","m","p","r","o","v","e","m","e","n","t">>,
        <<"U+26A1"," ","I","m","p","r","o","v","e","m","e","n","t","s">> >>,
     << <<"D","o","c","u","m","e","n","t","a","t","i","o","n">>,
        <<"U+1F4DA"," ","D","o","c","u","m","e","n","t","a","t","i","o","n">> >>,
     << <<"R","e","f","a","c","t","o","r">>,
        <<"U+1F527"," ","R","e","f","a","c","t","o","r","i","n","g">> >>,
     << <<"P","e","r","f","o","r","m","a","n","c","e">>,
        <<"U+1F680"," ","P","e","r","f","o","r","m","a","n","c","e"," ","I","m","p","r","o","v","e","m","e","n","t","s">> >> >>

DOMAIN_AREAS ==
  << <<"A","c","t","i","v","i","t","y">>,
     <<"A","d","m","i","n","i","s","t","r","a","t","i","o","n">>,
     <<"A","s","s","e","t","s">>,
     <<"E","n","d"," ","o","f"," ","T","r","i","a","l">>,
     <<"F","o","r","m","s">>,
     <<"M","a","n","a","g","e"," ","A","r","e","a">>,
     <<"M","e","d","i","a"," ","P","l","a","y","e","r">>,
     <<"N","o","t","i","f","i","c","a","t","i","o","n","s">>,
     <<"P","e","r","m","i","s","s","i","o","n","s">>,
     <<"R","e","p","o","r","t","i","n","g">>,
     <<"S","t","u","d","y"," ","E","v","e","n","t","s"," ","/"," ","V","i","s","i","t">>,
     <<"S","t","u","d","y"," ","P","r","o","c","e","d","u","r","e","s"," ","/"," ","A","s","s","e","s","s","m","e","n","t">>,
     <<"S","u","b","j","e","c","t","s">>,
     <<"T","r","i","a","l"," ","C","o","n","f","i","g","u","r","a","t","i","o","n">>,
     <<"U","p","l","o","a","d","e","r">> >>

EXCLUDED_STATUSES ==
  << <<"C","a","n","c","e","l","e","d">>,
     <<"C","a","n","c","e","l","l","e","d">>,
     <<"D","u","p","l","i","c","a","t","e">> >>

OtherChanges ==
  <<"O","t","h","e","r"," ","C","h","a","n","g","e","s">>

NoIssuesFound ==
  <<"N","o"," ","i","s","s","u","e","s"," ","f","o","u","n","d"," ","f","o","r"," ","t","h","i","s"," ","r","e","l","e","a","s","e",".">>

----------------------------------------------------------------------------
(* Dictionary and list helpers over the tables *)

\* key in table (a dict given as its <<key, value>> items)
HasKey(table, key) == \E i \in 1..Len(table) : table[i][1] = key

\* table[key], for a key of the table
Lookup(table, key) ==
  table[CHOOSE i \in 1..Len(table) : table[i][1] = key][2]

\* table.get(key, default)
DictGet(table, key, default) ==
  IF HasKey(table, key) THEN Lookup(table, key) ELSE default

\* x in list
InList(list, x) == \E i \in 1..Len(list) : list[i] = x

----------------------------------------------------------------------------
(* Categorizer.  An issue is [identifier, title, url, state, labels]:       *)
(* state is issue['state']['name'], labels is the list of the names         *)
(* issue['labels']['nodes'][..]['name'], url is a string or None.           *)

RECURSIVE FirstCategory(_)
\* the loop of determine_category over the rest of issue_labels
FirstCategory(issue_labels) ==
  IF issue_labels = << >> THEN OtherChanges
  ELSE IF HasKey(CATEGORY_MAPPINGS, Head(issue_labels))
       THEN Lookup(CATEGORY_MAPPINGS, Head(issue_labels))
       ELSE FirstCategory(Tail(issue_labels))

\* Mutant of determine_category: the default is "Other".
determine_category_Other(issue) ==
  IF \E j \in 1..Len(issue.labels) : HasKey(CATEGORY_MAPPINGS, issue.labels[j])
  THEN FirstCategory(issue.labels)
  ELSE <<"O","t","h","e","r">>

RECURSIVE FirstInTable(_, _)
\* Mutant of determine_category: the loop runs over the table, not over the
\* issue's labels.
FirstInTable(issue_labels, k) ==
  IF k > Len(CATEGORY_MAPPINGS) THEN OtherChanges
  ELSE IF InList(issue_labels, CATEGORY_MAPPINGS[k][1])
       THEN CATEGORY_MAPPINGS[k][2]
       ELSE FirstInTable(issue_labels, k + 1)

determine_category_TableOrder(issue) == FirstInTable(issue.labels, 1)

determine_category(issue) == FirstCategory(issue.labels)

RECURSIVE FirstDomain(_)
\* the loop of find_domain_area over the rest of issue_labels
FirstDomain(issue_labels) ==
  IF issue_labels = << >> THEN None
  ELSE IF InList(DOMAIN_AREAS, Head(issue_labels))
       THEN Head(issue_labels)
       ELSE FirstDomain(Tail(issue_labels))

RECURSIVE FirstInList(_, _)
\* the first entry of DOMAIN_AREAS from place k on that is among issue_labels
FirstInList(issue_labels, k) ==
  IF k > Len(DOMAIN_AREAS) THEN None
  ELSE IF InList(issue_labels, DOMAIN_AREAS[k])
       THEN DOMAIN_AREAS[k]
       ELSE FirstInList(issue_labels, k + 1)

find_domain_area_ListOrder(issue) == FirstInList(issue.labels, 1)

find_domain_area(issue) == FirstDomain(issue.labels)

\* STATUS_EMOJIS[state_name]: a state outside the table gives a KeyError
get_status_emoji_Index(issue) ==
  IF HasKey(STATUS_EMOJIS, issue.state)
  THEN Lookup(STATUS_EMOJIS, issue.state) ELSE << "KeyError" >>

get_status_emoji(issue) == DictGet(STATUS_EMOJIS, issue.state, << >>)

\* Mutant of should_exclude_issue: one spelling of "Canceled" only.
should_exclude_issue_OneSpelling(issue) ==
  issue.state \in { EXCLUDED_STATUSES[1], EXCLUDED_STATUSES[3] }

should_exclude_issue(issue) == InList(EXCLUDED_STATUSES, issue.state)

----------------------------------------------------------------------------
(* Renderer: generate_release_notes *)

\* filtered_issues
FilteredIssues(input) ==
  SelectSeq(input, LAMBDA issue : ~should_exclude_issue(issue))

\* The keys of categorized_issues in insertion order: the values of
\* CATEGORY_MAPPINGS, then "Other Changes".
CategoryKeys ==
  [k \in 1..Len(CATEGORY_MAPPINGS) |-> CATEGORY_MAPPINGS[k][2]]
    \o << OtherChanges >>

\* The dict appended to a category's list for one issue.
Entry(issue) ==
  [ title        |-> issue.title,
    identifier   |-> issue.identifier,
    url          |-> Or(issue.url,
                        LINEAR_WORKSPACE_URL \o <<"/","i","s","s","u","e","/">> \o issue.identifier),
    domain_area  |-> find_domain_area(issue),
    status_emoji |-> get_status_emoji(issue) ]

RECURSIVE Categorize_Prepend(_, _)
\* Mutant of Categorize: an issue is put at the front of its bucket.
Categorize_Prepend(filtered, categorized) ==
  IF filtered = << >> THEN categorized
  ELSE LET category == determine_category(Head(filtered))
           k == CHOOSE j \in 1..Len(CategoryKeys) : CategoryKeys[j] = category
       IN  Categorize_Prepend(Tail(filtered),
                              [categorized EXCEPT ![k] = << Entry(Head(filtered)) >> \o @])

RECURSIVE Categorize(_, _)
\* The categorizing loop: categorized is the list of the buckets, one per
\* key of CategoryKeys; each issue is appended to the bucket of its category.
Categorize(filtered, categorized) ==
  IF filtered = << >> THEN categorized
  ELSE LET category == determine_category(Head(filtered))
           k == CHOOSE j \in 1..Len(CategoryKeys) : CategoryKeys[j] = category
       IN  Categorize(Tail(filtered),
                      [categorized EXCEPT ![k] = Append(@, Entry(Head(filtered)))])

\* categorized_issues after the loop
CategorizedIssues(input) ==
  Categorize(FilteredIssues(input), [k \in 1..Len(CategoryKeys) |-> << >>])

\* Mutant of IssueLine: the domain suffix is written for every issue.
IssueLine_AlwaysSuffix(entry) ==
  <<"-"," ">> \o entry.status_emoji \o <<" ","*","*">> \o entry.title
    \o <<"*","*"," ","(","[">> \o entry.identifier \o <<"]","(">> \o entry.url \o <<")",")">>
    \o <<" ","[">> \o entry.domain_area \o <<"]">>
    \o <<"\n">>

\* One bullet line, with its line break.
IssueLine(entry) ==
  <<"-"," ">> \o entry.status_emoji \o <<" ","*","*">> \o entry.title
    \o <<"*","*"," ","(","[">> \o entry.identifier \o <<"]","(">> \o entry.url \o <<")",")">>
    \o (IF Truthy(entry.domain_area)
        THEN <<" ","[">> \o entry.domain_area \o <<"]">>
        ELSE << >>)
    \o <<"\n">>

\* the loop over a category's issues left after its first line
IssueLines_FirstOnly(issues_list) ==
  IF issues_list = << >> THEN << >> ELSE IssueLine(Head(issues_list))

RECURSIVE IssueLines(_)
IssueLines(issues_list) ==
  IF issues_list = << >> THEN << >>
  ELSE IssueLine(Head(issues_list)) \o IssueLines(Tail(issues_list))

\* The text added for one category: nothing when its list is empty.
CategorySection(category, issues_list) ==
  IF issues_list = << >> THEN << >>
  ELSE <<"#","#"," ">> \o category \o <<"\n","\n">>
         \o IssueLines(issues_list) \o <<"\n">>

RECURSIVE Sections(_, _)
\* The loop over categorized_issues.items() from key k on.
Sections(categorized, k) ==
  IF k > Len(categorized) THEN << >>
  ELSE CategorySection(CategoryKeys[k], categorized[k])
         \o Sections(categorized, k + 1)

\* The heading and the timestamp line.
Preamble(version, clock) ==
  <<"#"," ","U+1F680"," ","R","e","l","e","a","s","e"," ","N","o","t","e","s"," ","-"," ">> \o version \o <<"\n","\n">>
    \o <<"*","G","e","n","e","r","a","t","e","d"," ","o","n"," ">> \o clock \o <<"*","\n","\n">>

\* Mutant of generate_release_notes: no early return for an empty list.
generate_release_notes_NoSentinel(input, version, clock) ==
  Preamble(version, clock) \o Sections(CategorizedIssues(input), 1)

\* the sentinel returned when nothing is left after the filter
generate_release_notes_SentinelAfterFilter(input, version, clock) ==
  IF FilteredIssues(input) = << >> THEN NoIssuesFound
  ELSE Preamble(version, clock) \o Sections(CategorizedIssues(input), 1)

generate_release_notes(input, version, clock) ==
  IF input = << >> THEN NoIssuesFound
  ELSE Preamble(version, clock) \o Sections(CategorizedIssues(input), 1)

----------------------------------------------------------------------------
(* The scheduler's renderer.  scheduler.py carries its own tables and its  *)
(* own determine_category, find_domain_area, get_status_emoji,             *)
(* should_exclude_issue and generate_release_notes; they are translated    *)
(* here from scheduler.py, apart from those of app.py above.               *)

\* LINEAR_WORKSPACE_URL, at its default
scheduler_LINEAR_WORKSPACE_URL ==
  <<"h","t","t","p","s",":","/","/","l","i","n","e","a","r",".","a","p","p","/","y","o","u","r","-","w","o","r","k","s","p","a","c","e">>

\* state name -> glyph, in declaration order
scheduler_STATUS_EMOJIS ==
  << << <<"C","o","m","p","l","e","t","e","d">>,
        <<"U+2705">> >>,
     << <<"D","o","n","e">>,
        <<"U+2705">> >>,
     << <<"F","i","x","e","d">>,
        <<"U+2705">> >>,
     << <<"R","e","s","o","l","v","e","d">>,
        <<"U+2705">> >>,
     << <<"S","t","a","r","t","e","d">>,
        <<"U+1F536">> >>,
     << <<"I","n"," ","P","r","o","g","r","e","s","s">>,
        <<"U+1F536">> >>,
     << <<"C","o","d","e"," ","R","e","v","i","e","w">>,
        <<"U+1F536">> >>,
     << <<"R","e","a","d","y"," ","f","o","r"," ","P","r","o","d","u","c","t">>,
        <<"U+1F50D">> >>,
     << <<"P","r","o","d","u","c","t"," ","R","e","v","i","e","w">>,
        <<"U+1F50D">> >>,
     << <<"R","e","a","d","y"," ","f","o","r"," ","T","e","s","t","i","n","g">>,
        <<"U+1F50D">> >>,
     << <<"T","e","s","t","i","n","g">>,
        <<"U+1F50D">> >>,
     << <<"B","a","c","k","l","o","g">>,
        <<"U+25FB","U+FE0F">> >>,
     << <<"U","n","s","t","a","r","t","e","d">>,
        <<"U+25FB","U+FE0F">> >>,
     << <<"T","o","d","o">>,
        <<"U+25FB","U+FE0F">> >> >>

\* label -> category heading, in declaration order (a dict keeps insertion order)
scheduler_CATEGORY_MAPPINGS ==
  << << <<"B","u","g">>,
        <<"U+1F41B"," ","B","u","g"," ","F","i","x","e","s">> >>,
     << <<"F","e","a","t","u","r","e">>,
        <<"U+2728"," ","N","e","w"," ","F","e","a","t","u","r","e","s">> >>,
     << <<"I","m","p","r","o","v","e","m","e","n","t">>,
        <<"U+26A1"," ","I","m","p","r","o","v","e","m","e","n","t","s">> >>,
     << <<"D","o","c","u","m","e","n","t","a","t","i","o","n">>,
        <<"U+1F4DA"," ","D","o","c","u","m","e","n","t","a","t","i","o","n">> >>,
     << <<"R","e","f","a","c","t","o","r">>,
        <<"U+1F527"," ","R","e","f","a","c","t","o","r","i","n","g">> >>,
     << <<"P","e","r","f","o","r","m","a","n","c","e">>,
        <<"U+1F680"," ","P","e","r","f","o","r","m","a","n","c","e"," ","I","m","p","r","o","v","e","m","e","n","t","s">> >> >>

scheduler_DOMAIN_AREAS ==
  << <<"A","c","t","i","v","i","t","y">>,
     <<"A","d","m","i","n","i","s","t","r","a","t","i","o","n">>,
     <<"A","s","s","e","t","s">>,
     <<"E","n","d"," ","o","f"," ","T","r","i","a","l">>,
     <<"F","o","r","m","s">>,
     <<"M","a","n","a","g","e"," ","A","r","e","a">>,
     <<"M","e","d","i","a"," ","P","l","a","y","e","r">>,
     <<"N","o","t","i","f","i","c","a","t","i","o","n","s">>,
     <<"P","e","r","m","i","s","s","i","o","n","s">>,
     <<"R","e","p","o","r","t","i","n","g">>,
     <<"S","t","u","d","y"," ","E","v","e","n","t","s"," ","/"," ","V","i","s","i","t">>,
     <<"S","t","u","d","y"," ","P","r","o","c","e","d","u","r","e","s"," ","/"," ","A","s","s","e","s","s","m","e","n","t">>,
     <<"S","u","b","j","e","c","t","s">>,
     <<"T","r","i","a","l"," ","C","o","n","f","i","g","u","r","a","t","i","o","n">>,
     <<"U","p","l","o","a","d","e","r">> >>

scheduler_EXCLUDED_STATUSES ==
  << <<"C","a","n","c","e","l","e","d">>,
     <<"C","a","n","c","e","l","l","e","d">>,
     <<"D","u","p","l","i","c","a","t","e">> >>

scheduler_OtherChanges ==
  <<"O","t","h","e","r"," ","C","h","a","n","g","e","s">>

scheduler_NoIssuesFound ==
  <<"N","o"," ","i","s","s","u","e","s"," ","f","o","u","n","d"," ","f","o","r"," ","t","h","i","s"," ","r","e","l","e","a","s","e",".">>

RECURSIVE scheduler_FirstCategory(_)
\* the loop of determine_category over the rest of issue_labels
scheduler_FirstCategory(issue_labels) ==
  IF issue_labels = << >> THEN scheduler_OtherChanges
  ELSE IF HasKey(scheduler_CATEGORY_MAPPINGS, Head(issue_labels))
       THEN Lookup(scheduler_CATEGORY_MAPPINGS, Head(issue_labels))
       ELSE scheduler_FirstCategory(Tail(issue_labels))

scheduler_determine_category(issue) == scheduler_FirstCategory(issue.labels)

RECURSIVE scheduler_FirstDomain(_)
\* the loop of find_domain_area over the rest of issue_labels
scheduler_FirstDomain(issue_labels) ==
  IF issue_labels = << >> THEN None
  ELSE IF InList(scheduler_DOMAIN_AREAS, Head(issue_labels))
       THEN Head(issue_labels)
       ELSE scheduler_FirstDomain(Tail(issue_labels))

scheduler_find_domain_area(issue) == scheduler_FirstDomain(issue.labels)

scheduler_get_status_emoji(issue) == DictGet(scheduler_STATUS_EMOJIS, issue.state, << >>)

scheduler_should_exclude_issue(issue) == InList(scheduler_EXCLUDED_STATUSES, issue.state)

\* filtered_issues
scheduler_FilteredIssues(input) ==
  SelectSeq(input, LAMBDA issue : ~scheduler_should_exclude_issue(issue))

\* The keys of categorized_issues in insertion order: the values of
\* CATEGORY_MAPPINGS, then "Other Changes".
scheduler_CategoryKeys ==
  [k \in 1..Len(scheduler_CATEGORY_MAPPINGS) |-> scheduler_CATEGORY_MAPPINGS[k][2]]
    \o << scheduler_OtherChanges >>

\* The dict appended to a category's list for one issue.
scheduler_Entry(issue) ==
  [ title        |-> issue.title,
    identifier   |-> issue.identifier,
    url          |-> Or(issue.url,
                        scheduler_LINEAR_WORKSPACE_URL \o <<"/","i","s","s","u","e","/">> \o issue.identifier),
    domain_area  |-> scheduler_find_domain_area(issue),
    status_emoji |-> scheduler_get_status_emoji(issue) ]

RECURSIVE scheduler_Categorize(_, _)
\* The categorizing loop: categorized is the list of the buckets, one per
\* key of CategoryKeys; each issue is appended to the bucket of its category.
scheduler_Categorize(filtered, categorized) ==
  IF filtered = << >> THEN categorized
  ELSE LET category == scheduler_determine_category(Head(filtered))
           k == CHOOSE j \in 1..Len(scheduler_CategoryKeys) : scheduler_CategoryKeys[j] = category
       IN  scheduler_Categorize(Tail(filtered),
                      [categorized EXCEPT ![k] = Append(@, scheduler_Entry(Head(filtered)))])

\* categorized_issues after the loop
scheduler_CategorizedIssues(input) ==
  scheduler_Categorize(scheduler_FilteredIssues(input), [k \in 1..Len(scheduler_CategoryKeys) |-> << >>])

\* One bullet line, with its line break.
scheduler_IssueLine(entry) ==
  <<"-"," ">> \o entry.status_emoji \o <<" ","*","*">> \o entry.title
    \o <<"*","*"," ","(","[">> \o entry.identifier \o <<"]","(">> \o entry.url \o <<")",")">>
    \o (IF Truthy(entry.domain_area)
        THEN <<" ","[">> \o entry.domain_area \o <<"]">>
        ELSE << >>)
    \o <<"\n">>

RECURSIVE scheduler_IssueLines(_)
scheduler_IssueLines(issues_list) ==
  IF issues_list = << >> THEN << >>
  ELSE scheduler_IssueLine(Head(issues_list)) \o scheduler_IssueLines(Tail(issues_list))

\* The text added for one category: nothing when its list is empty.
scheduler_CategorySection(category, issues_list) ==
  IF issues_list = << >> THEN << >>
  ELSE <<"#","#"," ">> \o category \o <<"\n","\n">>
         \o scheduler_IssueLines(issues_list) \o <<"\n">>

RECURSIVE scheduler_Sections(_, _)
\* The loop over categorized_issues.items() from key k on.
scheduler_Sections(categorized, k) ==
  IF k > Len(categorized) THEN << >>
  ELSE scheduler_CategorySection(scheduler_CategoryKeys[k], categorized[k])
         \o scheduler_Sections(categorized, k + 1)

\* The heading and the timestamp line.
scheduler_Preamble(version, clock) ==
  <<"#"," ","U+1F680"," ","R","e","l","e","a","s","e"," ","N","o","t","e","s"," ","-"," ">> \o version \o <<"\n","\n">>
    \o <<"*","G","e","n","e","r","a","t","e","d"," ","o","n"," ">> \o clock \o <<"*","\n","\n">>

scheduler_generate_release_notes(input, version, clock) ==
  IF input = << >> THEN scheduler_NoIssuesFound
  ELSE scheduler_Preamble(version, clock) \o scheduler_Sections(scheduler_CategorizedIssues(input), 1)

----------------------------------------------------------------------------
(* Block converter: text helpers *)

\* The characters str.strip() removes (those str.isspace() holds of, which
\* are also the ones \s matches); the ones TLA+ has no escape for are
\* written as the token of their code point.
Whitespace ==
  {"\t", "\n", "U+000B", "\f", "\r", "U+001C", "U+001D", "U+001E", "U+001F", " ",
   "U+0085", "U+00A0", "U+1680", "U+2000", "U+2001", "U+2002", "U+2003",
   "U+2004", "U+2005", "U+2006", "U+2007", "U+2008", "U+2009", "U+200A",
   "U+2028", "U+2029", "U+202F", "U+205F", "U+3000"}

\* The characters \d matches in a str pattern compiled without re.ASCII:
\* the ASCII digits and the other decimal digits of Unicode (category Nd),
\* each written as the token of its code point.
Digits ==
  {"0", "1", "2", "3", "4", "5", "6", "7", "8", "9"} \cup {
    "U+0660", "U+0661", "U+0662", "U+0663", "U+0664", "U+0665", "U+0666", "U+0667", "U+0668", "U+0669",
    "U+06F0", "U+06F1", "U+06F2", "U+06F3", "U+06F4", "U+06F5", "U+06F6", "U+06F7", "U+06F8", "U+06F9",
    "U+07C0", "U+07C1", "U+07C2", "U+07C3", "U+07C4", "U+07C5", "U+07C6", "U+07C7", "U+07C8", "U+07C9",
    "U+0966", "U+0967", "U+0968", "U+0969", "U+096A", "U+096B", "U+096C", "U+096D", "U+096E", "U+096F",
    "U+09E6", "U+09E7", "U+09E8", "U+09E9", "U+09EA", "U+09EB", "U+09EC", "U+09ED", "U+09EE", "U+09EF",
    "U+0A66", "U+0A67", "U+0A68", "U+0A69", "U+0A6A", "U+0A6B", "U+0A6C", "U+0A6D", "U+0A6E", "U+0A6F",
    "U+0AE6", "U+0AE7", "U+0AE8", "U+0AE9", "U+0AEA", "U+0AEB", "U+0AEC", "U+0AED", "U+0AEE", "U+0AEF",
    "U+0B66", "U+0B67", "U+0B68", "U+0B69", "U+0B6A", "U+0B6B", "U+0B6C", "U+0B6D", "U+0B6E", "U+0B6F",
    "U+0BE6", "U+0BE7", "U+0BE8", "U+0BE9", "U+0BEA", "U+0BEB", "U+0BEC", "U+0BED", "U+0BEE", "U+0BEF",
    "U+0C66", "U+0C67", "U+0C68", "U+0C69", "U+0C6A", "U+0C6B", "U+0C6C", "U+0C6D", "U+0C6E", "U+0C6F",
    "U+0CE6", "U+0CE7", "U+0CE8", "U+0CE9", "U+0CEA", "U+0CEB", "U+0CEC", "U+0CED", "U+0CEE", "U+0CEF",
    "U+0D66", "U+0D67", "U+0D68", "U+0D69", "U+0D6A", "U+0D6B", "U+0D6C", "U+0D6D", "U+0D6E", "U+0D6F",
    "U+0DE6", "U+0DE7", "U+0DE8", "U+0DE9", "U+0DEA", "U+0DEB", "U+0DEC", "U+0DED", "U+0DEE", "U+0DEF",
    "U+0E50", "U+0E51", "U+0E52", "U+0E53", "U+0E54", "U+0E55", "U+0E56", "U+0E57", "U+0E58", "U+0E59",
    "U+0ED0", "U+0ED1", "U+0ED2", "U+0ED3", "U+0ED4", "U+0ED5", "U+0ED6", "U+0ED7", "U+0ED8", "U+0ED9",
    "U+0F20", "U+0F21", "U+0F22", "U+0F23", "U+0F24", "U+0F25", "U+0F26", "U+0F27", "U+0F28", "U+0F29",
    "U+1040", "U+1041", "U+1042", "U+1043", "U+1044", "U+1045", "U+1046", "U+1047", "U+1048", "U+1049",
    "U+1090", "U+1091", "U+1092", "U+1093", "U+1094", "U+1095", "U+1096", "U+1097", "U+1098", "U+1099",
    "U+17E0", "U+17E1", "U+17E2", "U+17E3", "U+17E4", "U+17E5", "U+17E6", "U+17E7", "U+17E8", "U+17E9",
    "U+1810", "U+1811", "U+1812", "U+1813", "U+1814", "U+1815", "U+1816", "U+1817", "U+1818", "U+1819",
    "U+1946", "U+1947", "U+1948", "U+1949", "U+194A", "U+194B", "U+194C", "U+194D", "U+194E", "U+194F",
    "U+19D0", "U+19D1", "U+19D2", "U+19D3", "U+19D4", "U+19D5", "U+19D6", "U+19D7", "U+19D8", "U+19D9",
    "U+1A80", "U+1A81", "U+1A82", "U+1A83", "U+1A84", "U+1A85", "U+1A86", "U+1A87", "U+1A88", "U+1A89",
    "U+1A90", "U+1A91", "U+1A92", "U+1A93", "U+1A94", "U+1A95", "U+1A96", "U+1A97", "U+1A98", "U+1A99",
    "U+1B50", "U+1B51", "U+1B52", "U+1B53", "U+1B54", "U+1B55", "U+1B56", "U+1B57", "U+1B58", "U+1B59",
    "U+1BB0", "U+1BB1", "U+1BB2", "U+1BB3", "U+1BB4", "U+1BB5", "U+1BB6", "U+1BB7", "U+1BB8", "U+1BB9",
    "U+1C40", "U+1C41", "U+1C42", "U+1C43", "U+1C44", "U+1C45", "U+1C46", "U+1C47", "U+1C48", "U+1C49",
    "U+1C50", "U+1C51", "U+1C52", "U+1C53", "U+1C54", "U+1C55", "U+1C56", "U+1C57", "U+1C58", "U+1C59",
    "U+A620", "U+A621", "U+A622", "U+A623", "U+A624", "U+A625", "U+A626", "U+A627", "U+A628", "U+A629",
    "U+A8D0", "U+A8D1", "U+A8D2", "U+A8D3", "U+A8D4", "U+A8D5", "U+A8D6", "U+A8D7", "U+A8D8", "U+A8D9",
    "U+A900", "U+A901", "U+A902", "U+A903", "U+A904", "U+A905", "U+A906", "U+A907", "U+A908", "U+A909",
    "U+A9D0", "U+A9D1", "U+A9D2", "U+A9D3", "U+A9D4", "U+A9D5", "U+A9D6", "U+A9D7", "U+A9D8", "U+A9D9",
    "U+A9F0", "U+A9F1", "U+A9F2", "U+A9F3", "U+A9F4", "U+A9F5", "U+A9F6", "U+A9F7", "U+A9F8", "U+A9F9",
    "U+AA50", "U+AA51", "U+AA52", "U+AA53", "U+AA54", "U+AA55", "U+AA56", "U+AA57", "U+AA58", "U+AA59",
    "U+ABF0", "U+ABF1", "U+ABF2", "U+ABF3", "U+ABF4", "U+ABF5", "U+ABF6", "U+ABF7", "U+ABF8", "U+ABF9",
    "U+FF10", "U+FF11", "U+FF12", "U+FF13", "U+FF14", "U+FF15", "U+FF16", "U+FF17", "U+FF18", "U+FF19",
    "U+104A0", "U+104A1", "U+104A2", "U+104A3", "U+104A4", "U+104A5", "U+104A6", "U+104A7", "U+104A8", "U+104A9",
    "U+10D30", "U+10D31", "U+10D32", "U+10D33", "U+10D34", "U+10D35", "U+10D36", "U+10D37", "U+10D38", "U+10D39",
    "U+11066", "U+11067", "U+11068", "U+11069", "U+1106A", "U+1106B", "U+1106C", "U+1106D", "U+1106E", "U+1106F",
    "U+110F0", "U+110F1", "U+110F2", "U+110F3", "U+110F4", "U+110F5", "U+110F6", "U+110F7", "U+110F8", "U+110F9",
    "U+11136", "U+11137", "U+11138", "U+11139", "U+1113A", "U+1113B", "U+1113C", "U+1113D", "U+1113E", "U+1113F",
    "U+111D0", "U+111D1", "U+111D2", "U+111D3", "U+111D4", "U+111D5", "U+111D6", "U+111D7", "U+111D8", "U+111D9",
    "U+112F0", "U+112F1", "U+112F2", "U+112F3", "U+112F4", "U+112F5", "U+112F6", "U+112F7", "U+112F8", "U+112F9",
    "U+11450", "U+11451", "U+11452", "U+11453", "U+11454", "U+11455", "U+11456", "U+11457", "U+11458", "U+11459",
    "U+114D0", "U+114D1", "U+114D2", "U+114D3", "U+114D4", "U+114D5", "U+114D6", "U+114D7", "U+114D8", "U+114D9",
    "U+11650", "U+11651", "U+11652", "U+11653", "U+11654", "U+11655", "U+11656", "U+11657", "U+11658", "U+11659",
    "U+116C0", "U+116C1", "U+116C2", "U+116C3", "U+116C4", "U+116C5", "U+116C6", "U+116C7", "U+116C8", "U+116C9",
    "U+11730", "U+11731", "U+11732", "U+11733", "U+11734", "U+11735", "U+11736", "U+11737", "U+11738", "U+11739",
    "U+118E0", "U+118E1", "U+118E2", "U+118E3", "U+118E4", "U+118E5", "U+118E6", "U+118E7", "U+118E8", "U+118E9",
    "U+11950", "U+11951", "U+11952", "U+11953", "U+11954", "U+11955", "U+11956", "U+11957", "U+11958", "U+11959",
    "U+11C50", "U+11C51", "U+11C52", "U+11C53", "U+11C54", "U+11C55", "U+11C56", "U+11C57", "U+11C58", "U+11C59",
    "U+11D50", "U+11D51", "U+11D52", "U+11D53", "U+11D54", "U+11D55", "U+11D56", "U+11D57", "U+11D58", "U+11D59",
    "U+11DA0", "U+11DA1", "U+11DA2", "U+11DA3", "U+11DA4", "U+11DA5", "U+11DA6", "U+11DA7", "U+11DA8", "U+11DA9",
    "U+16A60", "U+16A61", "U+16A62", "U+16A63", "U+16A64", "U+16A65", "U+16A66", "U+16A67", "U+16A68", "U+16A69",
    "U+16AC0", "U+16AC1", "U+16AC2", "U+16AC3", "U+16AC4", "U+16AC5", "U+16AC6", "U+16AC7", "U+16AC8", "U+16AC9",
    "U+16B50", "U+16B51", "U+16B52", "U+16B53", "U+16B54", "U+16B55", "U+16B56", "U+16B57", "U+16B58", "U+16B59",
    "U+1D7CE", "U+1D7CF", "U+1D7D0", "U+1D7D1", "U+1D7D2", "U+1D7D3", "U+1D7D4", "U+1D7D5", "U+1D7D6", "U+1D7D7",
    "U+1D7D8", "U+1D7D9", "U+1D7DA", "U+1D7DB", "U+1D7DC", "U+1D7DD", "U+1D7DE", "U+1D7DF", "U+1D7E0", "U+1D7E1",
    "U+1D7E2", "U+1D7E3", "U+1D7E4", "U+1D7E5", "U+1D7E6", "U+1D7E7", "U+1D7E8", "U+1D7E9", "U+1D7EA", "U+1D7EB",
    "U+1D7EC", "U+1D7ED", "U+1D7EE", "U+1D7EF", "U+1D7F0", "U+1D7F1", "U+1D7F2", "U+1D7F3", "U+1D7F4", "U+1D7F5",
    "U+1D7F6", "U+1D7F7", "U+1D7F8", "U+1D7F9", "U+1D7FA", "U+1D7FB", "U+1D7FC", "U+1D7FD", "U+1D7FE", "U+1D7FF",
    "U+1E140", "U+1E141", "U+1E142", "U+1E143", "U+1E144", "U+1E145", "U+1E146", "U+1E147", "U+1E148", "U+1E149",
    "U+1E2F0", "U+1E2F1", "U+1E2F2", "U+1E2F3", "U+1E2F4", "U+1E2F5", "U+1E2F6", "U+1E2F7", "U+1E2F8", "U+1E2F9",
    "U+1E950", "U+1E951", "U+1E952", "U+1E953", "U+1E954", "U+1E955", "U+1E956", "U+1E957", "U+1E958", "U+1E959",
    "U+1FBF0", "U+1FBF1", "U+1FBF2", "U+1FBF3", "U+1FBF4", "U+1FBF5", "U+1FBF6", "U+1FBF7", "U+1FBF8", "U+1FBF9" }

RECURSIVE LStrip(_)
LStrip(s) ==
  IF s # << >> /\ Head(s) \in Whitespace THEN LStrip(Tail(s)) ELSE s

RECURSIVE RStrip(_)
RStrip(s) ==
  IF s # << >> /\ s[Len(s)] \in Whitespace
  THEN RStrip(SubSeq(s, 1, Len(s) - 1)) ELSE s

\* line.strip()
Strip(s) == RStrip(LStrip(s))

RECURSIVE IndexFrom(_, _, _)
\* The first index >= i of s that holds character c; 0 when there is none.
IndexFrom(s, c, i) ==
  IF i > Len(s) THEN 0
  ELSE IF s[i] = c THEN i ELSE IndexFrom(s, c, i + 1)

RECURSIVE Split(_)
\* s.split('\n'): the pieces between line breaks, empty pieces included.
Split(s) ==
  LET n == IndexFrom(s, "\n", 1)
  IN  IF n = 0 THEN << s >>
      ELSE << SubSeq(s, 1, n - 1) >> \o Split(From(s, n))

RECURSIVE DigitRun(_, _)
\* The length of the run of digits of s that starts at index i.
DigitRun(s, i) ==
  IF i <= Len(s) /\ s[i] \in Digits THEN 1 + DigitRun(s, i + 1) ELSE 0

\* Mutant of NumberedPrefix: the pattern ^\d+\.\s
NumberedPrefix_AnyWhitespace(line) ==
  LET d == DigitRun(line, 1)
  IN  IF d >= 1 /\ Len(line) >= d + 2 /\ line[d + 1] = "." /\ line[d + 2] \in Whitespace
      THEN d + 2 ELSE 0

\* The length of the match of ^\d+\. (with its space) at the start of line;
\* 0 when it does not match.
NumberedPrefix(line) ==
  LET d == DigitRun(line, 1)
  IN  IF d >= 1 /\ Len(line) >= d + 2 /\ line[d + 1] = "." /\ line[d + 2] = " "
      THEN d + 2 ELSE 0

----------------------------------------------------------------------------
(* Block converter: rich text.  A span is [content, link, bold, italic];   *)
(* link is None when the span has no "link", bold / italic are FALSE when  *)
(* it has no such annotation.  A match is [start, end, groups] with start  *)
(* and end as re gives them (0-based, end exclusive); NoMatch is None.     *)

\* the final span built with the annotation of the span before it
PlainSpan_Italic(content) == [content |-> content, link |-> None, bold |-> FALSE, italic |-> TRUE]

PlainSpan(content)  == [content |-> content, link |-> None, bold |-> FALSE, italic |-> FALSE]
LinkSpan(text, url) == [content |-> text,    link |-> url,  bold |-> FALSE, italic |-> FALSE]
BoldSpan(content)   == [content |-> content, link |-> None, bold |-> TRUE,  italic |-> FALSE]
ItalicSpan(content) == [content |-> content, link |-> None, bold |-> FALSE, italic |-> TRUE]

NoMatch == [start |-> 0, end |-> 0, groups |-> << >>]

\* \[(.+)\]\((.+)\) at index i: the greedy pattern, which runs to the last
\* closing bracket and the last closing parenthesis of s
LinkAt_Greedy(s, i) ==
  IF s[i] # "[" THEN NoMatch
  ELSE LET closes == { j \in (i + 2)..(Len(s) - 3) :
                         /\ s[j] = "]" /\ s[j + 1] = "("
                         /\ \E k \in (j + 3)..Len(s) : s[k] = ")" }
       IN  IF closes = {} THEN NoMatch
           ELSE LET j == CHOOSE x \in closes : \A y \in closes : y <= x
                    k == CHOOSE x \in (j + 3)..Len(s) :
                           s[x] = ")" /\ \A y \in (x + 1)..Len(s) : s[y] # ")"
                IN  [start |-> i - 1, end |-> k,
                     groups |-> << SubSeq(s, i + 1, j - 1), SubSeq(s, j + 2, k - 1) >>]

\* \[([^\]]+)\]\(([^)]+)\) matched at index i of s (1-based)
LinkAt(s, i) ==
  IF s[i] # "[" THEN NoMatch
  ELSE LET j == IndexFrom(s, "]", i + 1)
       IN  IF j < i + 2 \/ j + 1 > Len(s) \/ s[j + 1] # "(" THEN NoMatch
           ELSE LET k == IndexFrom(s, ")", j + 2)
                IN  IF k < j + 3 THEN NoMatch
                    ELSE [start |-> i - 1, end |-> k,
                          groups |-> << SubSeq(s, i + 1, j - 1), SubSeq(s, j + 2, k - 1) >>]

\* \*\*([^*]+)\*\* matched at index i of s
BoldAt(s, i) ==
  IF i + 1 > Len(s) \/ s[i] # "*" \/ s[i + 1] # "*" THEN NoMatch
  ELSE LET j == IndexFrom(s, "*", i + 2)
       IN  IF j < i + 3 \/ j + 1 > Len(s) \/ s[j + 1] # "*" THEN NoMatch
           ELSE [start |-> i - 1, end |-> j + 1,
                 groups |-> << SubSeq(s, i + 2, j - 1) >>]

\* \*([^*]*)\* matched at index i of s: the content may be empty
ItalicAt_EmptyContent(s, i) ==
  IF s[i] # "*" THEN NoMatch
  ELSE LET j == IndexFrom(s, "*", i + 1)
       IN  IF j < i + 1 THEN NoMatch
           ELSE [start |-> i - 1, end |-> j,
                 groups |-> << SubSeq(s, i + 1, j - 1) >>]

\* \*([^*]+)\* matched at index i of s
ItalicAt(s, i) ==
  IF s[i] # "*" THEN NoMatch
  ELSE LET j == IndexFrom(s, "*", i + 1)
       IN  IF j < i + 2 THEN NoMatch
           ELSE [start |-> i - 1, end |-> j,
                 groups |-> << SubSeq(s, i + 1, j - 1) >>]

RECURSIVE SearchLink(_, _)
\* re.search of the link pattern in s: the leftmost match from index i on
SearchLink(s, i) ==
  IF i > Len(s) THEN NoMatch
  ELSE IF LinkAt(s, i) # NoMatch THEN LinkAt(s, i) ELSE SearchLink(s, i + 1)

RECURSIVE SearchBold(_, _)
SearchBold(s, i) ==
  IF i > Len(s) THEN NoMatch
  ELSE IF BoldAt(s, i) # NoMatch THEN BoldAt(s, i) ELSE SearchBold(s, i + 1)

RECURSIVE SearchItalic(_, _)
SearchItalic(s, i) ==
  IF i > Len(s) THEN NoMatch
  ELSE IF ItalicAt(s, i) # NoMatch THEN ItalicAt(s, i) ELSE SearchItalic(s, i + 1)

\* text[a:b+1]
Slice_Inclusive(text, a, b) == SubSeq(text, a + 1, b + 1)

\* text[a:b]
Slice(text, a, b) == SubSeq(text, a + 1, b)

RECURSIVE ItalicLoop_NoGuard(_, _)
\* the loop of _parse_italic_formatting appending the text before a match
\* without testing that there is any
ItalicLoop_NoGuard(text, current_pos) ==
  LET italic_match == SearchItalic(From(text, current_pos), 1)
      italic_start == current_pos + italic_match.start
      italic_end   == current_pos + italic_match.end
  IN  IF italic_match = NoMatch
      THEN IF current_pos < Len(text)
           THEN << PlainSpan(From(text, current_pos)) >> ELSE << >>
      ELSE << PlainSpan(Slice(text, current_pos, italic_start)) >>
           \o << ItalicSpan(italic_match.groups[1]) >>
           \o ItalicLoop_NoGuard(text, italic_end)

RECURSIVE ItalicLoop(_, _)
\* The while loop of _parse_italic_formatting from current_pos on, and the
\* remaining text after it.
ItalicLoop(text, current_pos) ==
  LET italic_match == SearchItalic(From(text, current_pos), 1)
      italic_start == current_pos + italic_match.start
      italic_end   == current_pos + italic_match.end
  IN  IF italic_match = NoMatch
      THEN IF current_pos < Len(text)
           THEN << PlainSpan(From(text, current_pos)) >> ELSE << >>
      ELSE (IF italic_start > current_pos
            THEN << PlainSpan(Slice(text, current_pos, italic_start)) >>
            ELSE << >>)
           \o << ItalicSpan(italic_match.groups[1]) >>
           \o ItalicLoop(text, italic_end)

_parse_italic_formatting(text) ==
  IF text = << >> THEN << >> ELSE ItalicLoop(text, 0)

RECURSIVE BoldLoop(_, _)
\* The while loop of _parse_inline_formatting from current_pos on, and the
\* remaining text after it.
BoldLoop(text, current_pos) ==
  LET bold_match == SearchBold(From(text, current_pos), 1)
      bold_start == current_pos + bold_match.start
      bold_end   == current_pos + bold_match.end
  IN  IF bold_match = NoMatch
      THEN IF current_pos < Len(text)
           THEN _parse_italic_formatting(From(text, current_pos)) ELSE << >>
      ELSE (IF bold_start > current_pos
            THEN _parse_italic_formatting(Slice(text, current_pos, bold_start))
            ELSE << >>)
           \o << BoldSpan(bold_match.groups[1]) >>
           \o BoldLoop(text, bold_end)

_parse_inline_formatting(text) ==
  IF text = << >> THEN << >> ELSE BoldLoop(text, 0)

RECURSIVE LinkLoop(_, _)
\* The while loop of _parse_rich_text from current_pos on, and the remaining
\* text after it.
LinkLoop(text, current_pos) ==
  LET link_match == SearchLink(From(text, current_pos), 1)
      link_start == current_pos + link_match.start
      link_end   == current_pos + link_match.end
  IN  IF link_match = NoMatch
      THEN IF current_pos < Len(text)
           THEN _parse_inline_formatting(From(text, current_pos)) ELSE << >>
      ELSE (IF link_start > current_pos
            THEN _parse_inline_formatting(Slice(text, current_pos, link_start))
            ELSE << >>)
           \o << LinkSpan(link_match.groups[1], link_match.groups[2]) >>
           \o LinkLoop(text, link_end)

RECURSIVE BoldFirstLoop(_, _)
BoldFirstLoop(text, current_pos) ==
  LET bold_match == SearchBold(From(text, current_pos), 1)
      bold_start == current_pos + bold_match.start
      bold_end   == current_pos + bold_match.end
  IN  IF bold_match = NoMatch
      THEN LinkLoop(From(text, current_pos), 0)
      ELSE LinkLoop(Slice(text, current_pos, bold_start), 0)
           \o << BoldSpan(bold_match.groups[1]) >>
           \o BoldFirstLoop(text, bold_end)

\* the patterns taken in the order bold, link, italic
_parse_rich_text_BoldFirst(text) == BoldFirstLoop(text, 0)

_parse_rich_text(text) == LinkLoop(text, 0)

----------------------------------------------------------------------------
(* Block converter: _markdown_to_notion_blocks.  A block is                 *)
(* [type, rich_text].                                                       *)

Block(type, content) == [type |-> type, rich_text |-> _parse_rich_text(content)]

\* Mutant of LineBlock: the first test is startswith('#').
LineBlock_HashFirst(line) ==
  IF StartsWith(line, << "#" >>) THEN Block("heading_1", From(line, 2))
  ELSE IF StartsWith(line, <<"-"," ">>) THEN Block("bulleted_list_item", From(line, 2))
  ELSE IF NumberedPrefix(line) # 0
       THEN Block("numbered_list_item", From(line, NumberedPrefix(line)))
  ELSE Block("paragraph", line)

\* The if / elif chain on one stripped, non-empty line, in the code's order.
LineBlock(line) ==
  IF StartsWith(line, <<"#"," ">>) THEN Block("heading_1", From(line, 2))
  ELSE IF StartsWith(line, <<"#","#"," ">>) THEN Block("heading_2", From(line, 3))
  ELSE IF StartsWith(line, <<"#","#","#"," ">>) THEN Block("heading_3", From(line, 4))
  ELSE IF StartsWith(line, <<"-"," ">>) THEN Block("bulleted_list_item", From(line, 2))
  ELSE IF NumberedPrefix(line) # 0
       THEN Block("numbered_list_item", From(line, NumberedPrefix(line)))
  ELSE Block("paragraph", line)

RECURSIVE BlocksOf_StripLate(_)
\* Mutant of BlocksOf: the line is tested for emptiness before it is stripped.
BlocksOf_StripLate(lines) ==
  IF lines = << >> THEN << >>
  ELSE (IF Head(lines) = << >> THEN << >> ELSE << LineBlock(Strip(Head(lines))) >>)
         \o BlocksOf_StripLate(Tail(lines))

RECURSIVE BlocksOf(_)
\* The loop over lines: a line that is empty once stripped adds no block.
BlocksOf(lines) ==
  IF lines = << >> THEN << >>
  ELSE LET line == Strip(Head(lines))
       IN  (IF line = << >> THEN << >> ELSE << LineBlock(line) >>)
             \o BlocksOf(Tail(lines))

_markdown_to_notion_blocks(markdown_content) == BlocksOf(Split(markdown_content))

----------------------------------------------------------------------------
(* Inputs *)

\* The longest issue list handed to the renderer.
MaxIssues == 2

\* The longest raw markdown text handed to the converter.
MaxText == 5

\* State names: with a glyph, without one, and the three excluded ones.
IssueStates ==
  { <<"D","o","n","e">>,
    <<"T","r","i","a","g","e">>,
    <<"C","a","n","c","e","l","e","d">>,
    <<"C","a","n","c","e","l","l","e","d">>,
    <<"D","u","p","l","i","c","a","t","e">> }

\* Label lists: none, a release label only, one category label, two category
\* labels in both orders, a domain label with and without a category label.
IssueLabels ==
  { << >>,
    << <<"1",".","2",".","0">> >>,
    << <<"B","u","g">> >>,
    << <<"P","e","r","f","o","r","m","a","n","c","e">>, <<"B","u","g">> >>,
    << <<"B","u","g">>, <<"P","e","r","f","o","r","m","a","n","c","e">> >>,
    << <<"S","u","b","j","e","c","t","s">>, <<"1",".","2",".","0">>, <<"F","o","r","m","s">> >>,
    << <<"F","o","r","m","s">>, <<"F","e","a","t","u","r","e">>, <<"S","u","b","j","e","c","t","s">> >> }

\* An issue's own URL: absent, empty, given.
IssueUrls ==
  { None,
    << >>,
    <<"h","t","t","p","s",":","/","/","x","/","1">> }

\* The issue fields drawn for one issue: every state with a label list that
\* holds domain and category labels; every label list on a finished issue
\* with its own URL; every URL on an issue of unknown state.
IssueFields ==
  [ state : IssueStates,
    labels : { << <<"F","o","r","m","s">>, <<"F","e","a","t","u","r","e">>, <<"S","u","b","j","e","c","t","s">> >> },
    url : { None } ]
  \cup
  [ state : { <<"D","o","n","e">> },
    labels : IssueLabels,
    url : { <<"h","t","t","p","s",":","/","/","x","/","1">> } ]
  \cup
  [ state : { <<"T","r","i","a","g","e">> },
    labels : { << >>, << <<"B","u","g">> >> },
    url : IssueUrls ]

\* The identifier and the title of the n-th issue of the list.
IssueNumber == << "1", "2", "3", "4", "5", "6", "7", "8", "9" >>
IdentifierOf(n) == <<"G","P","-">> \o << IssueNumber[n] >>
TitleOf(n) == <<"F","i","x"," ">> \o << IssueNumber[n] >>

Versions ==
  { <<"1",".","2",".","0">>,
    <<"2",".","0">> }

\* What datetime.now().strftime('%Y-%m-%d %H:%M:%S') gives.
ClockReadings ==
  { <<"2","0","2","6","-","1","0","-","3","0"," ","0","9",":","1","5",":","0","0">> }

\* The characters of a raw markdown text.
TextChars == {"#", " ", "-", "1", ".", "\t", "\n", "U+00A0", "U+0663"}

Texts == UNION { [1..n -> TextChars] : n \in 0..MaxText }

----------------------------------------------------------------------------
(* Nothing published and nothing saved: the state of the Notion page and   *)
(* of the scheduler while only the pipeline runs.                          *)

NoFile == [modified |-> 0, content |-> None]

NoResult == [kind |-> "none", value |-> None]

ReleaseLabels == { <<"1",".","2",".","0">>, <<"2",".","0",".","0">> }

ElsewhereIdle ==
  /\ self = [database_id |-> None, parent_page_id |-> None]
  /\ sessions = << >>
  /\ failures = 0
  /\ invocations = 0
  /\ pages = << >>
  /\ calls = << >>
  /\ result = NoResult
  /\ LINEAR_API_KEY = None
  /\ files = [label \in ReleaseLabels |-> NoFile]
  /\ today = 1
  /\ processes = << >>

----------------------------------------------------------------------------
(* The pipeline: an issue list is collected, rendered, converted. *)

Init ==
  /\ issues = << >>
  /\ release_version = None
  /\ now = None
  /\ markdown = None
  /\ blocks = << >>
  /\ pc = "input"
  /\ ElsewhereIdle

\* One more issue record arrives from the tracker.
AddIssue ==
  /\ pc = "input"
  /\ Len(issues) < MaxIssues
  /\ \E f \in IssueFields :
       issues' = Append(issues,
                        [ identifier |-> IdentifierOf(Len(issues) + 1),
                          title      |-> TitleOf(Len(issues) + 1),
                          url        |-> f.url,
                          state      |-> f.state,
                          labels     |-> f.labels ])
  /\ UNCHANGED <<release_version, now, markdown, blocks, pc, elsewhere>>

\* main renders what was fetched only `if issues:`; then
\* generate_release_notes(issues, release_label), reading the clock once
Render ==
  /\ pc = "input"
  /\ issues # << >>
  /\ \E version \in Versions, clock \in ClockReadings :
       /\ release_version' = version
       /\ now' = clock
       /\ markdown' = generate_release_notes(issues, version, clock)
  /\ pc' = "markdown"
  /\ UNCHANGED <<issues, blocks, elsewhere>>

\* _markdown_to_notion_blocks(markdown)
Convert ==
  /\ pc = "markdown"
  /\ blocks' = _markdown_to_notion_blocks(markdown)
  /\ pc' = "blocks"
  /\ UNCHANGED <<issues, release_version, now, markdown, elsewhere>>

Next == AddIssue \/ Render \/ Convert

Spec == Init /\ [][Next]_vars

----------------------------------------------------------------------------
(* The converter alone, on any markdown text. *)

InitText ==
  /\ issues = << >>
  /\ release_version = None
  /\ now = None
  /\ markdown \in Texts
  /\ blocks = << >>
  /\ pc = "markdown"
  /\ ElsewhereIdle

SpecText == InitText /\ [][Convert]_vars

----------------------------------------------------------------------------
(* The converter on one line of inline markup.  A line is made of at most  *)
(* MaxRuns pieces: a letter, the opening delimiters of the patterns and    *)
(* the closing bracket alone, and the shortest bracketed, parenthesised    *)
(* and starred runs.  It holds                                             *)
(* no whitespace and no block prefix, so a non-empty line is one paragraph *)
(* whose spans are _parse_rich_text of the line.                           *)

MaxRuns == 4

Pieces ==
  { << "a" >>, << "*" >>, << "*", "*" >>, << "[" >>, << "]" >>, << "(" >>,
    << "[", "a", "]" >>, << "(", "a", ")" >>, << "*", "a", "*" >> }

RECURSIVE Joined(_)
Joined(runs) ==
  IF runs = << >> THEN << >> ELSE Head(runs) \o Joined(Tail(runs))

RichTexts == { Joined(runs) : runs \in UNION { [1..n -> Pieces] : n \in 0..MaxRuns } }

InitRich ==
  /\ issues = << >>
  /\ release_version = None
  /\ now = None
  /\ markdown \in RichTexts
  /\ blocks = << >>
  /\ pc = "markdown"
  /\ ElsewhereIdle

SpecRich == InitRich /\ [][Convert]_vars

----------------------------------------------------------------------------
(* The renderer and the converter on one issue whose title may hold the    *)
(* characters of inline markup: the title of an issue is any string.       *)

Titles ==
  { TitleOf(1),
    <<"F","i","x"," ","*","1">>,
    <<"F","i","x"," ","[","1","]","(","x",")">> }

InitTitled ==
  /\ issues \in { << [identifier |-> IdentifierOf(1), title |-> title, url |-> url,
                      state |-> state, labels |-> labels] >> :
                    title \in Titles, url \in IssueUrls,
                    state \in IssueStates, labels \in IssueLabels }
  /\ release_version = None
  /\ now = None
  /\ markdown = None
  /\ blocks = << >>
  /\ pc = "input"
  /\ ElsewhereIdle

SpecTitled == InitTitled /\ [][Render \/ Convert]_vars

----------------------------------------------------------------------------
(* The renderer alone: generate_release_notes called with any issue list,  *)
(* the empty one included, which main never hands it.                      *)

InitRenderer ==
  /\ issues \in { [k \in 1..n |->
                     [ identifier |-> IdentifierOf(k),
                       title      |-> TitleOf(k),
                       url        |-> fields[k].url,
                       state      |-> fields[k].state,
                       labels     |-> fields[k].labels ]] :
                   n \in 0..MaxIssues, fields \in [1..MaxIssues -> IssueFields] }
  /\ release_version = None
  /\ now = None
  /\ markdown = None
  /\ blocks = << >>
  /\ pc = "input"
  /\ ElsewhereIdle

\* generate_release_notes(issues, release_version), reading the clock once
Generate ==
  /\ pc = "input"
  /\ \E version \in Versions, clock \in ClockReadings :
       /\ release_version' = version
       /\ now' = clock
       /\ markdown' = generate_release_notes(issues, version, clock)
  /\ pc' = "markdown"
  /\ UNCHANGED <<issues, blocks, elsewhere>>

SpecRenderer == InitRenderer /\ [][Generate]_vars

(* Reading a rendered document back, for the properties below *)

\* sub occurs in s
Contains(s, sub) ==
  \E k \in 0..(Len(s) - Len(sub)) : SubSeq(s, k + 1, k + Len(sub)) = sub

IsBulletLine(line)  == StartsWith(line, <<"-"," ">>)
IsHeadingLine(line) == StartsWith(line, <<"#","#"," ">>)

\* The lines of a document that are bullet lines.
BulletLines(document) == SelectSeq(Split(document), IsBulletLine)

\* The bullet line of issue n links its identifier.
MentionsIssue(line, n) ==
  Contains(line, <<"(","[">> \o issues[n].identifier \o <<"]","(">>)

\* The state names the specification excludes.
ExcludedNames ==
  { <<"C","a","n","c","e","l","e","d">>,
    <<"C","a","n","c","e","l","l","e","d">>,
    <<"D","u","p","l","i","c","a","t","e">> }

Kept(n) == issues[n].state \notin ExcludedNames

\* The seven category headings in the order of the enumeration.
Enumeration ==
  << <<"U+1F41B"," ","B","u","g"," ","F","i","x","e","s">>,
     <<"U+2728"," ","N","e","w"," ","F","e","a","t","u","r","e","s">>,
     <<"U+26A1"," ","I","m","p","r","o","v","e","m","e","n","t","s">>,
     <<"U+1F4DA"," ","D","o","c","u","m","e","n","t","a","t","i","o","n">>,
     <<"U+1F527"," ","R","e","f","a","c","t","o","r","i","n","g">>,
     <<"U+1F680"," ","P","e","r","f","o","r","m","a","n","c","e"," ","I","m","p","r","o","v","e","m","e","n","t","s">>,
     <<"O","t","h","e","r"," ","C","h","a","n","g","e","s">> >>

\* The labels of the category table in declaration order.
TableLabels ==
  << <<"B","u","g">>,
     <<"F","e","a","t","u","r","e">>,
     <<"I","m","p","r","o","v","e","m","e","n","t">>,
     <<"D","o","c","u","m","e","n","t","a","t","i","o","n">>,
     <<"R","e","f","a","c","t","o","r">>,
     <<"P","e","r","f","o","r","m","a","n","c","e">> >>

\* The place of a heading text in the enumeration; 0 when it is none of them.
EnumerationIndex(text) ==
  IF \E k \in 1..Len(Enumeration) : Enumeration[k] = text
  THEN CHOOSE k \in 1..Len(Enumeration) : Enumeration[k] = text
  ELSE 0

----------------------------------------------------------------------------
(* C1: an issue whose state is Canceled, Cancelled or Duplicate has no     *)
(* bullet line in the rendered notes: no bullet line shows its identifier  *)
(* or its title, whatever its labels and its place in the list.            *)
C1_ExcludedNeverRendered ==
  pc = "markdown" =>
    LET bullets == BulletLines(markdown) IN
    \A n \in 1..Len(issues) :
      ~Kept(n) =>
        \A p \in 1..Len(bullets) :
          /\ ~Contains(bullets[p], issues[n].identifier)
          /\ ~Contains(bullets[p], issues[n].title)

\* An excluded issue that carries category and domain labels sits after a
\* rendered one.
C1_Witness ==
  /\ pc = "markdown"
  /\ Len(issues) = 2
  /\ Kept(1)
  /\ issues[2].state = <<"C","a","n","c","e","l","l","e","d">>
  /\ Len(issues[2].labels) = 3
  /\ Len(BulletLines(markdown)) = 1

(* C2: determine_category gives every issue, whatever its labels, exactly  *)
(* one value, and that value is one of the seven fixed categories.         *)
C2_CategoryTotal ==
  /\ Cardinality({ Enumeration[k] : k \in 1..Len(Enumeration) }) = 7
  /\ \A n \in 1..Len(issues) :
       EnumerationIndex(determine_category(issues[n])) \in 1..7

\* The list holds an issue without labels and one without a category label.
C2_Witness ==
  /\ Len(issues) = 2
  /\ issues[1].labels = << >>
  /\ issues[2].labels = << <<"1",".","2",".","0">> >>
  /\ determine_category(issues[2]) = Enumeration[7]

\* The table labels an issue carries, as places in the table.
TablePlaces(issue) ==
  { k \in 1..Len(TableLabels) :
      \E j \in 1..Len(issue.labels) : issue.labels[j] = TableLabels[k] }

\* The places in the issue's own label list that hold a table label.
OwnPlaces(issue) ==
  { j \in 1..Len(issue.labels) :
      \E k \in 1..Len(TableLabels) : issue.labels[j] = TableLabels[k] }

Least(S) == CHOOSE x \in S : \A y \in S : x <= y

(* C3 as stated: with two or more table labels on an issue, the category   *)
(* is that of the matching entry that comes first in the table.            *)
C3_TableOrderWins ==
  \A n \in 1..Len(issues) :
    Cardinality(TablePlaces(issues[n])) >= 2 =>
      determine_category(issues[n]) = Enumeration[Least(TablePlaces(issues[n]))]

(* C3 amended: with two or more table labels on an issue, the category is  *)
(* that of the table label that comes first in the issue's own label list. *)
C3_OwnOrderWins ==
  \A n \in 1..Len(issues) :
    Cardinality(TablePlaces(issues[n])) >= 2 =>
      LET first == issues[n].labels[Least(OwnPlaces(issues[n]))]
          k == CHOOSE k \in 1..Len(TableLabels) : TableLabels[k] = first
      IN  determine_category(issues[n]) = Enumeration[k]

\* Two issues carry the same two table labels in opposite orders and get
\* different categories.
C3_Witness ==
  /\ Len(issues) = 2
  /\ issues[1].labels = << <<"P","e","r","f","o","r","m","a","n","c","e">>, <<"B","u","g">> >>
  /\ issues[2].labels = << <<"B","u","g">>, <<"P","e","r","f","o","r","m","a","n","c","e">> >>
  /\ determine_category(issues[1]) = Enumeration[6]
  /\ determine_category(issues[2]) = Enumeration[1]

(* C4: for an empty issue list the renderer returns exactly the text       *)
(* "No issues found for this release.", whatever the release identifier.   *)
C4_EmptyListSentinel ==
  (pc = "markdown" /\ issues = << >>) =>
    markdown = <<"N","o"," ","i","s","s","u","e","s"," ","f","o","u","n","d"," ","f","o","r"," ","t","h","i","s"," ","r","e","l","e","a","s","e",".">>

\* The empty list was rendered for the second release identifier.
C4_Witness ==
  /\ pc = "markdown"
  /\ issues = << >>
  /\ release_version = <<"2",".","0">>
  /\ Len(markdown) = 33

\* The issue a bullet line is about; 0 when it links no issue of the list.
IssueOfLine(line) ==
  IF \E n \in 1..Len(issues) : MentionsIssue(line, n)
  THEN CHOOSE n \in 1..Len(issues) : MentionsIssue(line, n)
  ELSE 0

\* The category a heading line names, as its place in the enumeration.
HeadingIndex(line) == EnumerationIndex(From(line, 3))

RECURSIVE MarkdownOutline(_)
\* The heading lines and the bullet lines of a document in order, each with
\* what it is of: a heading's place in the enumeration, a bullet's issue.
MarkdownOutline(lines) ==
  IF lines = << >> THEN << >>
  ELSE (IF IsHeadingLine(Head(lines))
        THEN << [kind |-> "heading", of |-> HeadingIndex(Head(lines))] >>
        ELSE IF IsBulletLine(Head(lines))
        THEN << [kind |-> "bullet", of |-> IssueOfLine(Head(lines))] >>
        ELSE << >>)
       \o MarkdownOutline(Tail(lines))

(* C5: the category headings of the rendered notes follow the enumeration  *)
(* order whatever the order of the input, and the bullet lines under one   *)
(* heading follow the order of their issues in the input list.             *)
C5_HeadingAndBulletOrder ==
  pc = "markdown" =>
    LET outline == MarkdownOutline(Split(markdown))
        places == 1..Len(outline)
        headings == { p \in places : outline[p].kind = "heading" }
        bullets == { p \in places : outline[p].kind = "bullet" }
    IN  /\ \A p \in places : outline[p].of # 0
        /\ \A p, q \in headings : p < q => outline[p].of < outline[q].of
        /\ \A p, q \in bullets :
             (p < q /\ ~\E h \in headings : p < h /\ h < q) =>
               outline[p].of < outline[q].of

\* The first issue falls in the last category and the second in the first:
\* the headings come out in the other order.
C5_Witness ==
  /\ pc = "markdown"
  /\ Len(issues) = 2
  /\ Kept(1) /\ Kept(2)
  /\ issues[1].labels = << >>
  /\ issues[2].labels = << <<"B","u","g">> >>
  /\ MarkdownOutline(Split(markdown)) =
       << [kind |-> "heading", of |-> 1], [kind |-> "bullet", of |-> 2],
          [kind |-> "heading", of |-> 7], [kind |-> "bullet", of |-> 1] >>

----------------------------------------------------------------------------
(* Reading a block list back *)

RECURSIVE SpanText(_)
\* The contents of the spans, put together.
SpanText(spans) ==
  IF spans = << >> THEN << >> ELSE Head(spans).content \o SpanText(Tail(spans))

\* The issues of the list that are kept and fall in category k, in input order.
RECURSIVE KeptOfCategory(_, _)
KeptOfCategory(k, n) ==
  IF n > Len(issues) THEN << >>
  ELSE (IF Kept(n) /\ determine_category(issues[n]) = Enumeration[k]
        THEN << n >> ELSE << >>)
       \o KeptOfCategory(k, n + 1)

\* What the headings and bullets of the document should be: per non-empty
\* category in enumeration order, the category and then its issues.
RECURSIVE ExpectedOutline(_)
ExpectedOutline(k) ==
  IF k > Len(Enumeration) THEN << >>
  ELSE (IF KeptOfCategory(k, 1) = << >> THEN << >>
        ELSE << [heading |-> k] >>
               \o [j \in 1..Len(KeptOfCategory(k, 1)) |->
                     [bullet |-> KeptOfCategory(k, 1)[j]]])
       \o ExpectedOutline(k + 1)

\* The issue whose identifier a bullet block links; 0 when there is none.
IssueOfBlock(block) ==
  LET linked == { n \in 1..Len(issues) :
                    \E j \in 1..Len(block.rich_text) :
                      /\ block.rich_text[j].link # None
                      /\ block.rich_text[j].content = issues[n].identifier }
  IN  IF Cardinality(linked) = 1 THEN CHOOSE n \in linked : TRUE ELSE 0

\* The heading_2 and bulleted_list_item blocks, in order, read back.
RECURSIVE BlockOutline(_)
BlockOutline(bs) ==
  IF bs = << >> THEN << >>
  ELSE (IF Head(bs).type = "heading_2"
        THEN << [heading |-> EnumerationIndex(SpanText(Head(bs).rich_text))] >>
        ELSE IF Head(bs).type = "bulleted_list_item"
        THEN << [bullet |-> IssueOfBlock(Head(bs))] >>
        ELSE << >>)
       \o BlockOutline(Tail(bs))

(* C6: converting the notes rendered from a non-empty issue list gives one *)
(* heading_2 block per non-empty category, in enumeration order, and after *)
(* each of them one bulleted_list_item block per kept issue of that        *)
(* category, in input order.                                               *)
C6_RoundTripOutline ==
  (pc = "blocks" /\ issues # << >>) =>
    BlockOutline(blocks) = ExpectedOutline(1)

\* Two kept issues of two categories, listed against the enumeration order,
\* were rendered and converted.
C6_Witness ==
  /\ pc = "blocks"
  /\ Len(issues) = 2
  /\ Kept(1) /\ Kept(2)
  /\ determine_category(issues[1]) = Enumeration[7]
  /\ determine_category(issues[2]) = Enumeration[2]
  /\ Len(BlockOutline(blocks)) = 4

----------------------------------------------------------------------------
\* The glyph of the state table for a state name, empty for a name not in it.
TableGlyph(state) ==
  IF \E k \in 1..Len(STATUS_EMOJIS) : STATUS_EMOJIS[k][1] = state
  THEN STATUS_EMOJIS[CHOOSE k \in 1..Len(STATUS_EMOJIS) : STATUS_EMOJIS[k][1] = state][2]
  ELSE << >>

\* The domain list entries among an issue's labels.
DomainLabels(issue) ==
  { issue.labels[j] : j \in 1..Len(issue.labels) } \cap
  { DOMAIN_AREAS[k] : k \in 1..Len(DOMAIN_AREAS) }

\* "- <glyph> **<title>** ([<identifier>](<url>))" and the domain suffix
LineForm(glyph, title, identifier, url, suffix) ==
  <<"-"," ">> \o glyph \o <<" ","*","*">> \o title \o <<"*","*"," ","(","[">>
    \o identifier \o <<"]","(">> \o url \o <<")",")">> \o suffix

\* The link targets the renderer may give issue n.
OwnUrl(n) == issues[n].url
WorkspaceUrl(n) ==
  <<"h","t","t","p","s",":","/","/","l","i","n","e","a","r",".","a","p","p","/","y","o","u","r","-","w","o","r","k","s","p","a","c","e","/","i","s","s","u","e","/">> \o issues[n].identifier

(* C7: every rendered issue line is "- <glyph> **<title>**                 *)
(* ([<identifier>](<url>))" with the table glyph of the issue's state, or  *)
(* no glyph for a state outside the table, followed by " [<domain>]"       *)
(* exactly when a domain was classified for the issue.                     *)
C7_IssueLineForm ==
  pc = "markdown" =>
    LET bullets == BulletLines(markdown) IN
    \A p \in 1..Len(bullets) :
      LET line == bullets[p]
          n == IssueOfLine(line)
      IN  /\ n # 0
          /\ \E url \in { OwnUrl(n), WorkspaceUrl(n) } :
               \E suffix \in { << >> } \cup
                             { <<" ","[">> \o d \o <<"]">> : d \in DomainLabels(issues[n]) } :
                 /\ line = LineForm(TableGlyph(issues[n].state), issues[n].title,
                                    issues[n].identifier, url, suffix)
                 /\ (suffix = << >>) <=> (find_domain_area(issues[n]) = None)

\* One issue with a glyph and a domain, one with neither, both rendered.
C7_Witness ==
  /\ pc = "markdown"
  /\ Len(issues) = 2
  /\ issues[1].state = <<"D","o","n","e">> /\ find_domain_area(issues[1]) = <<"S","u","b","j","e","c","t","s">>
  /\ issues[2].state = <<"T","r","i","a","g","e">> /\ find_domain_area(issues[2]) = None
  /\ Len(BulletLines(markdown)) = 2

\* The link target of a bullet line: what stands between "](" and "))".
LinkTarget(line) ==
  LET open  == CHOOSE k \in 1..Len(line) :
                 /\ SubSeq(line, k, k + 1) = <<"]","(">>
                 /\ \A m \in 1..(k - 1) : SubSeq(line, m, m + 1) # <<"]","(">>
      close == CHOOSE k \in (open + 2)..Len(line) :
                 /\ SubSeq(line, k, k + 1) = <<")",")">>
                 /\ \A m \in (open + 2)..(k - 1) : SubSeq(line, m, m + 1) # <<")",")">>
  IN  SubSeq(line, open + 2, close - 1)

(* C8: the link target of a rendered issue is the issue's own URL when it  *)
(* is present and not empty, and otherwise the workspace URL followed by   *)
(* "/issue/" and the identifier; it is never empty.                        *)
C8_UrlResolution ==
  pc = "markdown" =>
    LET bullets == BulletLines(markdown) IN
    \A p \in 1..Len(bullets) :
      LET n == IssueOfLine(bullets[p])
          target == LinkTarget(bullets[p])
      IN  /\ n # 0
          /\ target # << >>
          /\ target = IF OwnUrl(n) # None /\ OwnUrl(n) # << >>
                      THEN OwnUrl(n) ELSE WorkspaceUrl(n)

\* An issue with an empty URL and one with its own URL were rendered.
C8_Witness ==
  /\ pc = "markdown"
  /\ Len(issues) = 2
  /\ Kept(1) /\ Kept(2)
  /\ OwnUrl(1) = << >>
  /\ OwnUrl(2) = <<"h","t","t","p","s",":","/","/","x","/","1">>
  /\ \E p \in 1..2 : LinkTarget(BulletLines(markdown)[p]) = WorkspaceUrl(1)
  /\ \E p \in 1..2 : LinkTarget(BulletLines(markdown)[p]) = OwnUrl(2)

----------------------------------------------------------------------------
(* Reading the converter's input back *)

\* A line is blank when it is empty or holds only whitespace.
IsBlank(line) == \A k \in 1..Len(line) : line[k] \in Whitespace

\* The non-blank lines of a document, each without the whitespace around it.
NonBlankLines(document) ==
  LET kept == SelectSeq(Split(document), LAMBDA line : ~IsBlank(line))
  IN  [k \in 1..Len(kept) |-> Strip(kept[k])]

\* The length of a leading run of digits followed by a dot and one of the
\* characters of after; 0 when the line does not start so.
ListNumber(line, after) ==
  IF \E d \in 1..Len(line) :
       /\ \A k \in 1..d : line[k] \in Digits
       /\ Len(line) >= d + 2 /\ line[d + 1] = "." /\ line[d + 2] \in after
  THEN 2 + CHOOSE d \in 1..Len(line) :
             /\ \A k \in 1..d : line[k] \in Digits
             /\ Len(line) >= d + 2 /\ line[d + 1] = "." /\ line[d + 2] \in after
  ELSE 0

\* The block type and the length of the prefix of a line by the precedence
\* "### ", "## ", "# ", numbered, "- ", paragraph; the numbered pattern ends
\* with one of the characters of after.
ByPrecedence(line, after) ==
  IF StartsWith(line, <<"#","#","#"," ">>) THEN [type |-> "heading_3", prefix |-> 4]
  ELSE IF StartsWith(line, <<"#","#"," ">>) THEN [type |-> "heading_2", prefix |-> 3]
  ELSE IF StartsWith(line, <<"#"," ">>) THEN [type |-> "heading_1", prefix |-> 2]
  ELSE IF ListNumber(line, after) # 0
       THEN [type |-> "numbered_list_item", prefix |-> ListNumber(line, after)]
  ELSE IF StartsWith(line, <<"-"," ">>) THEN [type |-> "bulleted_list_item", prefix |-> 2]
  ELSE [type |-> "paragraph", prefix |-> 0]

\* Every block has the type the precedence gives its line, and its spans hold
\* the line without the prefix.
BlocksFollow(after) ==
  LET lines == NonBlankLines(markdown) IN
  /\ Len(blocks) = Len(lines)
  /\ \A k \in 1..Len(lines) :
       LET expected == ByPrecedence(lines[k], after) IN
       /\ blocks[k].type = expected.type
       /\ SpanText(blocks[k].rich_text) = From(lines[k], expected.prefix)

(* C9 as stated: every non-blank line gets the block type of the           *)
(* precedence "### ", "## ", "# ", digits-dot-whitespace, "- ", paragraph, *)
(* and the line without the matched prefix goes to rich-text parsing.      *)
C9_PrecedenceAnyWhitespace ==
  pc = "blocks" => BlocksFollow(Whitespace)

(* C9 amended: the same with the numbered pattern digits-dot-space: a line *)
(* of digits, a dot and another whitespace character is a paragraph.  The  *)
(* order in which the code tests the prefixes gives no other type.         *)
C9_PrecedenceSpace ==
  pc = "blocks" => BlocksFollow({" "})

\* A numbered line that starts with what looks like a bullet was converted.
C9_Witness ==
  /\ pc = "blocks"
  /\ markdown = <<"1","."," ","-"," ">>
  /\ blocks = << [type |-> "numbered_list_item", rich_text |-> << PlainSpan(<< "-" >>) >>] >>

(* C10: a blank line gives no block: there are as many blocks as non-blank *)
(* lines, and the i-th block is the one built from the i-th non-blank line.*)
C10_BlocksAreNonBlankLines ==
  pc = "blocks" =>
    LET lines == NonBlankLines(markdown) IN
    /\ Len(blocks) = Len(lines)
    /\ \A k \in 1..Len(lines) : blocks[k] = LineBlock(lines[k])

\* A whitespace-only line between two lines of text gave no block.
C10_Witness ==
  /\ pc = "blocks"
  /\ markdown = <<"#","\n","\t","\n","-">>
  /\ Len(Split(markdown)) = 3
  /\ Len(blocks) = 2

----------------------------------------------------------------------------
(* Inline markup read off the line itself, for the properties below.  An   *)
(* occurrence is given by the places of its delimiters in the line.        *)

\* [text](url) occupies s[i..k], the text closing at j: the text holds no
\* closing bracket, the url no closing parenthesis, and neither is empty
LinkOccursAt(s, i, j, k) ==
  /\ i + 1 < j /\ j + 2 < k /\ k <= Len(s)
  /\ s[i] = "[" /\ s[j] = "]" /\ s[j + 1] = "(" /\ s[k] = ")"
  /\ \A m \in (i + 1)..(j - 1) : s[m] # "]"
  /\ \A m \in (j + 2)..(k - 1) : s[m] # ")"

LinkStarts(s, from) ==
  { i \in from..Len(s) :
      \E j \in (i + 2)..Len(s) : \E k \in (j + 3)..Len(s) : LinkOccursAt(s, i, j, k) }

\* the occurrences of [text](url) in s from place from on, leftmost first,
\* each beginning after the one before has ended
RECURSIVE LinkOccurrences(_, _)
LinkOccurrences(s, from) ==
  LET starts == LinkStarts(s, from) IN
  IF starts = {} THEN << >>
  ELSE LET i == Least(starts)
           j == CHOOSE x \in (i + 2)..Len(s) :
                  \E k \in (x + 3)..Len(s) : LinkOccursAt(s, i, x, k)
           k == CHOOSE x \in (j + 3)..Len(s) : LinkOccursAt(s, i, j, x)
       IN  << [first |-> i, last |-> k,
               text |-> SubSeq(s, i + 1, j - 1),
               url  |-> SubSeq(s, j + 2, k - 1)] >> \o LinkOccurrences(s, k + 1)

IsLinkSpan(span) == span.link # None

\* the spans of the one paragraph a line of inline markup gives
LineSpans == IF blocks = << >> THEN << >> ELSE blocks[1].rich_text

(* C11: the link spans of a line are, in order, its occurrences of         *)
(* [text](url) taken leftmost first without overlap: one span for each,    *)
(* whose content is the text as written (asterisks included), whose link   *)
(* is the url, and which is neither bold nor italic.                       *)
C11_LinksBecomeLinkSpans ==
  pc = "blocks" =>
    LET links == SelectSeq(LineSpans, IsLinkSpan)
        found == LinkOccurrences(markdown, 1)
    IN  /\ Len(links) = Len(found)
        /\ \A n \in 1..Len(found) :
             /\ links[n].content = found[n].text
             /\ links[n].link = found[n].url
             /\ ~links[n].bold /\ ~links[n].italic

\* A link whose text is wrapped in asterisks became one link span that
\* keeps them.
C11_Witness ==
  /\ pc = "blocks"
  /\ markdown = <<"[","*","a","*","]","(","a",")">>
  /\ LineSpans = << LinkSpan(<<"*","a","*">>, <<"a">>) >>

\* **content** occupies s[i..j+1] and *content* occupies s[i..j]: the
\* content holds no asterisk and is not empty
BoldOccursAt(s, i, j) ==
  /\ i + 2 < j /\ j + 1 <= Len(s)
  /\ s[i] = "*" /\ s[i + 1] = "*" /\ s[j] = "*" /\ s[j + 1] = "*"
  /\ \A m \in (i + 2)..(j - 1) : s[m] # "*"

ItalicOccursAt(s, i, j) ==
  /\ i + 1 < j /\ j <= Len(s)
  /\ s[i] = "*" /\ s[j] = "*"
  /\ \A m \in (i + 1)..(j - 1) : s[m] # "*"

\* the occurrences of a starred pattern that lie within s[lo..hi], leftmost
\* first, each beginning after the one before has ended
RECURSIVE BoldOccurrences(_, _, _)
BoldOccurrences(s, lo, hi) ==
  LET starts == { i \in lo..hi : \E j \in (i + 3)..(hi - 1) : BoldOccursAt(s, i, j) } IN
  IF starts = {} THEN << >>
  ELSE LET i == Least(starts)
           j == CHOOSE x \in (i + 3)..(hi - 1) : BoldOccursAt(s, i, x)
       IN  << [first |-> i, last |-> j + 1] >> \o BoldOccurrences(s, j + 2, hi)

RECURSIVE ItalicOccurrences(_, _, _)
ItalicOccurrences(s, lo, hi) ==
  LET starts == { i \in lo..hi : \E j \in (i + 2)..hi : ItalicOccursAt(s, i, j) } IN
  IF starts = {} THEN << >>
  ELSE LET i == Least(starts)
           j == CHOOSE x \in (i + 2)..hi : ItalicOccursAt(s, i, x)
       IN  << [first |-> i, last |-> j] >> \o ItalicOccurrences(s, j + 1, hi)

\* the stretches of lo..hi that the runs of taken (in order) leave free
RECURSIVE Gaps(_, _, _)
Gaps(taken, lo, hi) ==
  IF taken = << >> THEN << [first |-> lo, last |-> hi] >>
  ELSE << [first |-> lo, last |-> Head(taken).first - 1] >>
       \o Gaps(Tail(taken), Head(taken).last + 1, hi)

RECURSIVE BoldInGaps(_, _)
BoldInGaps(s, gaps) ==
  IF gaps = << >> THEN << >>
  ELSE BoldOccurrences(s, Head(gaps).first, Head(gaps).last) \o BoldInGaps(s, Tail(gaps))

RECURSIVE ItalicInGaps(_, _)
ItalicInGaps(s, gaps) ==
  IF gaps = << >> THEN << >>
  ELSE ItalicOccurrences(s, Head(gaps).first, Head(gaps).last) \o ItalicInGaps(s, Tail(gaps))

\* two lists of runs that do not overlap, as one list in the order of the line
RECURSIVE Merged(_, _)
Merged(a, b) ==
  IF a = << >> THEN b
  ELSE IF b = << >> THEN a
  ELSE IF Head(a).first < Head(b).first
       THEN << Head(a) >> \o Merged(Tail(a), b)
       ELSE << Head(b) >> \o Merged(a, Tail(b))

\* the markup a span stands for
SourceOf(span) ==
  IF span.link # None THEN << "[" >> \o span.content \o << "]", "(" >> \o span.link \o << ")" >>
  ELSE IF span.bold   THEN << "*", "*" >> \o span.content \o << "*", "*" >>
  ELSE IF span.italic THEN << "*" >> \o span.content \o << "*" >>
  ELSE span.content

\* the stretch of the line each span stands for, the first from place from on
RECURSIVE SpanPlaces(_, _)
SpanPlaces(spans, from) ==
  IF spans = << >> THEN << >>
  ELSE LET n == Len(SourceOf(Head(spans)))
       IN  << [first |-> from, last |-> from + n - 1, span |-> Head(spans)] >>
           \o SpanPlaces(Tail(spans), from + n)

IsBoldPlace(place) == place.span.bold
IsItalicPlace(place) == place.span.italic

Stretches(places) == [n \in 1..Len(places) |-> [first |-> places[n].first, last |-> places[n].last]]

(* C12: links are taken first, bold second, italic last.  The bold spans   *)
(* of a line stand for exactly the bold runs that lie wholly within the    *)
(* stretches its links leave free, the italic spans for exactly the italic *)
(* runs wholly within the stretches that links and bold runs leave free;   *)
(* so no bold or italic run reaches across a link, and no span is both     *)
(* bold and italic.                                                        *)
C12_LinkThenBoldThenItalic ==
  pc = "blocks" =>
    LET places  == SpanPlaces(LineSpans, 1)
        links   == Stretches(LinkOccurrences(markdown, 1))
        bolds   == BoldInGaps(markdown, Gaps(links, 1, Len(markdown)))
        italics == ItalicInGaps(markdown, Gaps(Merged(links, bolds), 1, Len(markdown)))
    IN  /\ \A n \in 1..Len(LineSpans) : ~(LineSpans[n].bold /\ LineSpans[n].italic)
        /\ Stretches(SelectSeq(places, IsBoldPlace)) = bolds
        /\ Stretches(SelectSeq(places, IsItalicPlace)) = italics

\* A link between two pairs of asterisks: the pairs stayed plain text and
\* the link was taken, where bold taken first would have swallowed it.
C12_Witness ==
  /\ pc = "blocks"
  /\ markdown = <<"*","*","[","a","]","(","a",")","*","*">>
  /\ LineSpans = << PlainSpan(<<"*","*">>), LinkSpan(<<"a">>, <<"a">>), PlainSpan(<<"*","*">>) >>

\* the places of a line that hold the delimiters of its runs: the opening
\* bracket of a link and all from its closing bracket to its closing
\* parenthesis, the two pairs of asterisks of a bold run, the two asterisks
\* of an italic run
DelimiterPlaces(s) ==
  LET found   == LinkOccurrences(s, 1)
      links   == Stretches(found)
      bolds   == BoldInGaps(s, Gaps(links, 1, Len(s)))
      italics == ItalicInGaps(s, Gaps(Merged(links, bolds), 1, Len(s)))
  IN  UNION { {found[n].first} \cup ((found[n].first + Len(found[n].text) + 1)..found[n].last) :
                n \in 1..Len(found) }
      \cup UNION { {bolds[n].first, bolds[n].first + 1, bolds[n].last - 1, bolds[n].last} :
                     n \in 1..Len(bolds) }
      \cup UNION { {italics[n].first, italics[n].last} : n \in 1..Len(italics) }

\* s without the characters at the places of drop
RECURSIVE Without(_, _, _)
Without(s, drop, k) ==
  IF k > Len(s) THEN << >>
  ELSE (IF k \in drop THEN << >> ELSE << s[k] >>) \o Without(s, drop, k + 1)

(* C13: the contents of the spans of a line, put together in order, are    *)
(* the line without the delimiters of its runs: every other character is   *)
(* there once, in its place.                                               *)
C13_ContentIsLineLessDelimiters ==
  pc = "blocks" =>
    SpanText(LineSpans) = Without(markdown, DelimiterPlaces(markdown), 1)

\* An italic run, a link and an unmatched asterisk: the delimiters of the
\* two runs are gone and the asterisk is kept.
C13_Witness ==
  /\ pc = "blocks"
  /\ markdown = <<"*","a","*","[","a","]","(","a",")","*">>
  /\ Len(LineSpans) = 3
  /\ SpanText(LineSpans) = <<"a","a","*">>

\* a text holds a run: a link, a bold or an italic occurrence
HasRun(s) ==
  \/ LinkStarts(s, 1) # {}
  \/ BoldOccurrences(s, 1, Len(s)) # << >>
  \/ ItalicOccurrences(s, 1, Len(s)) # << >>

(* C14: a document without any link, bold or italic run gives for each of  *)
(* its non-blank lines a block with exactly one span, which has no link    *)
(* and no annotation and whose content is the trimmed line without its     *)
(* block prefix.                                                           *)
C14_PlainLinesGiveOnePlainSpan ==
  (pc = "blocks" /\ ~HasRun(markdown)) =>
    LET lines == NonBlankLines(markdown) IN
    /\ Len(blocks) = Len(lines)
    /\ \A k \in 1..Len(lines) :
         blocks[k].rich_text =
           << [content |-> From(lines[k], ByPrecedence(lines[k], {" "}).prefix),
               link |-> None, bold |-> FALSE, italic |-> FALSE] >>

\* A level-2 heading line without markup gave a heading_2 block with the
\* heading text as its one plain span.
C14_Witness ==
  /\ pc = "blocks"
  /\ markdown = <<"#","#"," ","1">>
  /\ ~HasRun(markdown)
  /\ blocks = << [type |-> "heading_2",
                  rich_text |-> << [content |-> << "1" >>, link |-> None,
                                    bold |-> FALSE, italic |-> FALSE] >>] >>

\* the block types the converter builds
BlockTypes ==
  { "heading_1", "heading_2", "heading_3", "bulleted_list_item",
    "numbered_list_item", "paragraph" }

\* a match of one of the three patterns, wherever in the text it begins,
\* ends after the place it begins at, so the loop that takes it moves on
ScansAdvance(text) ==
  \A i \in 1..Len(text) :
    LET link_match == LinkAt(text, i)
        bold_match == BoldAt(text, i)
        italic_match == ItalicAt(text, i)
    IN  /\ link_match # NoMatch => link_match.end > link_match.start
        /\ bold_match # NoMatch => bold_match.end > bold_match.start
        /\ italic_match # NoMatch => italic_match.end > italic_match.start

(* C16: the converter gives a block list for every text, unmatched         *)
(* brackets, parentheses and asterisks included: each scan moves on by a   *)
(* non-empty match, the result is a list of blocks of the six types, one   *)
(* for each non-blank line, and a line without a balanced link, bold or    *)
(* italic run is one plain span that holds the line as written.            *)
C16_TotalAndLiteral ==
  /\ pc = "markdown" => ScansAdvance(markdown)
  /\ pc = "blocks" =>
       /\ Len(blocks) = Len(NonBlankLines(markdown))
       /\ \A k \in 1..Len(blocks) : blocks[k].type \in BlockTypes
       /\ (markdown # << >> /\ ~HasRun(markdown)) =>
            LineSpans = << [content |-> markdown, link |-> None,
                            bold |-> FALSE, italic |-> FALSE] >>

\* A bracketed text followed by an unclosed parenthesis and a lone asterisk
\* became one paragraph with the line as its plain span.
C16_Witness ==
  /\ pc = "blocks"
  /\ markdown = <<"[","a","]","(","*">>
  /\ ~HasRun(markdown)
  /\ blocks = << [type |-> "paragraph",
                  rich_text |-> << [content |-> markdown, link |-> None,
                                    bold |-> FALSE, italic |-> FALSE] >>] >>

(* C15 as stated: the line of an issue with a domain tag becomes one       *)
(* bulleted_list_item block of exactly five spans: the glyph and a space   *)
(* plain, the title bold, " (" plain, the identifier linked to the url,    *)
(* and ") [<domain>]" plain, whatever the title is.                        *)
C15_FiveSpans ==
  (pc = "blocks" /\ Len(issues) = 1 /\ find_domain_area(issues[1]) # None) =>
    \A k \in 1..Len(blocks) :
      blocks[k].type = "bulleted_list_item" =>
        \E url \in { OwnUrl(1), WorkspaceUrl(1) } :
          blocks[k].rich_text =
            << PlainSpan(TableGlyph(issues[1].state) \o << " " >>),
               BoldSpan(issues[1].title),
               PlainSpan(<< " ", "(" >>),
               LinkSpan(issues[1].identifier, url),
               PlainSpan(<< ")", " ", "[" >> \o find_domain_area(issues[1]) \o << "]" >>) >>

\* The places of the domain list that hold a label of the issue, and the
\* places in the issue's own label list that hold an entry of the domain list.
DomainPlaces(issue) ==
  { k \in 1..Len(DOMAIN_AREAS) :
      \E j \in 1..Len(issue.labels) : issue.labels[j] = DOMAIN_AREAS[k] }

OwnDomainPlaces(issue) ==
  { j \in 1..Len(issue.labels) :
      \E k \in 1..Len(DOMAIN_AREAS) : issue.labels[j] = DOMAIN_AREAS[k] }

\* no name is both an entry of the domain list and a label of the category table
ListsDisjoint ==
  \A k \in 1..Len(DOMAIN_AREAS) : \A j \in 1..Len(TableLabels) :
    DOMAIN_AREAS[k] # TableLabels[j]

(* C18 as stated: an issue gets no domain exactly when none of its labels  *)
(* is in the domain list, and otherwise the first entry of the domain list *)
(* that is among its labels; the domain list and the labels of the         *)
(* category table share no name.                                           *)
C18_ListOrderWins ==
  /\ ListsDisjoint
  /\ \A n \in 1..Len(issues) :
       /\ find_domain_area(issues[n]) = None <=> DomainPlaces(issues[n]) = {}
       /\ DomainPlaces(issues[n]) # {} =>
            find_domain_area(issues[n]) = DOMAIN_AREAS[Least(DomainPlaces(issues[n]))]

(* C18 amended: an issue gets no domain exactly when none of its labels is *)
(* in the domain list, and otherwise the first of its own labels, in the   *)
(* order the issue lists them, that is in the domain list; the domain list *)
(* and the labels of the category table share no name.                     *)
C18_OwnOrderWins ==
  /\ ListsDisjoint
  /\ \A n \in 1..Len(issues) :
       /\ find_domain_area(issues[n]) = None <=> DomainPlaces(issues[n]) = {}
       /\ DomainPlaces(issues[n]) # {} =>
            find_domain_area(issues[n]) = issues[n].labels[Least(OwnDomainPlaces(issues[n]))]

\* An issue that lists Subjects before Forms was rendered with the tag
\* Subjects, though Forms comes first in the domain list.
C18_Witness ==
  /\ pc = "markdown"
  /\ Len(issues) = 1
  /\ issues[1].state = <<"D","o","n","e">>
  /\ issues[1].labels = << <<"S","u","b","j","e","c","t","s">>, <<"1",".","2",".","0">>, <<"F","o","r","m","s">> >>
  /\ Least(DomainPlaces(issues[1])) < Least({ k \in 1..Len(DOMAIN_AREAS) : DOMAIN_AREAS[k] = <<"S","u","b","j","e","c","t","s">> })
  /\ Contains(markdown, <<" ","[","S","u","b","j","e","c","t","s","]">>)
  /\ ~Contains(markdown, <<" ","[","F","o","r","m","s","]">>)

(* C19: the categorizer and the renderer give a value for every issue of   *)
(* the list: a state outside the glyph table gives the empty glyph, no     *)
(* label of the category table the default category, no label of the      *)
(* domain list no domain, the exclusion test a truth value, every category *)
(* is a key of the renderer's buckets, and once the renderer has run its   *)
(* result is a non-empty text, also for an issue without a URL.            *)
C19_NoFailureModes ==
  /\ \A n \in 1..Len(issues) :
       LET issue == issues[n] IN
       /\ should_exclude_issue(issue) \in BOOLEAN
       /\ ~(\E k \in 1..Len(STATUS_EMOJIS) : STATUS_EMOJIS[k][1] = issue.state)
            => get_status_emoji(issue) = << >>
       /\ TablePlaces(issue) = {} => determine_category(issue) = Enumeration[7]
       /\ \E k \in 1..Len(CategoryKeys) : CategoryKeys[k] = determine_category(issue)
       /\ DomainPlaces(issue) = {} => find_domain_area(issue) = None
  /\ pc # "input" =>
       /\ markdown # None /\ Len(markdown) > 0
       /\ \A k \in 1..Len(markdown) : markdown[k] # None[1]

\* An issue in a state outside the glyph table, without labels and without
\* a URL was rendered: no glyph, the default category, no domain tag, the
\* workspace URL.
C19_Witness ==
  /\ pc = "markdown"
  /\ Len(issues) = 1
  /\ issues[1].state = <<"T","r","i","a","g","e">>
  /\ issues[1].labels = << >>
  /\ issues[1].url = None
  /\ Split(markdown)[5] = <<"#","#"," ">> \o Enumeration[7]
  /\ Split(markdown)[7] = LineForm(<< >>, issues[1].title, issues[1].identifier,
                                   WorkspaceUrl(1), << >>)

\* the greatest element of a non-empty set of numbers
Greatest(S) == CHOOSE x \in S : \A y \in S : y <= x

(* C20: in the notes rendered from a non-empty list every issue that is    *)
(* not excluded has exactly one bullet line, the heading above that line   *)
(* is the one of the category determine_category gives the issue, an       *)
(* excluded issue has none, and there are as many bullet lines as issues   *)
(* that are not excluded.                                                  *)
C20_IssuesConserved ==
  (pc = "markdown" /\ issues # << >>) =>
    LET outline == MarkdownOutline(Split(markdown))
        places == 1..Len(outline)
        headings == { p \in places : outline[p].kind = "heading" }
        bullets == { p \in places : outline[p].kind = "bullet" }
        kept == { n \in 1..Len(issues) : Kept(n) }
    IN  /\ Cardinality(bullets) = Cardinality(kept)
        /\ \A n \in 1..Len(issues) :
             Cardinality({ p \in bullets : outline[p].of = n }) = (IF n \in kept THEN 1 ELSE 0)
        /\ \A p \in bullets :
             LET above == { h \in headings : h < p } IN
             /\ outline[p].of # 0
             /\ above # {}
             /\ outline[Greatest(above)].of =
                  EnumerationIndex(determine_category(issues[outline[p].of]))

\* Two issues of the same category and one heading with their two lines.
C20_Witness ==
  /\ pc = "markdown"
  /\ Len(issues) = 2
  /\ Kept(1) /\ Kept(2)
  /\ determine_category(issues[1]) = determine_category(issues[2])
  /\ Len(SelectSeq(Split(markdown), IsHeadingLine)) = 1
  /\ Len(BulletLines(markdown)) = 2

(* C21: a list that is not empty but holds excluded issues only is not     *)
(* rendered as the "No issues found" text: the notes are the level-1       *)
(* release heading and the timestamp line and nothing else, so they hold   *)
(* no category heading and no bullet line.                                 *)
C21_AllExcludedGivesPreambleOnly ==
  (pc = "markdown" /\ issues # << >> /\ \A n \in 1..Len(issues) : ~Kept(n)) =>
    /\ markdown # NoIssuesFound
    /\ markdown =
         <<"#"," ","U+1F680"," ","R","e","l","e","a","s","e"," ","N","o","t","e","s"," ","-"," ">>
           \o release_version \o <<"\n","\n">>
           \o <<"*","G","e","n","e","r","a","t","e","d"," ","o","n"," ">> \o now \o <<"*","\n","\n">>
    /\ \A k \in 1..Len(Split(markdown)) :
         ~IsHeadingLine(Split(markdown)[k]) /\ ~IsBulletLine(Split(markdown)[k])

\* Two issues, one canceled in each spelling, were rendered.
C21_Witness ==
  /\ pc = "markdown"
  /\ Len(issues) = 2
  /\ issues[1].state = <<"C","a","n","c","e","l","e","d">>
  /\ issues[2].state = <<"C","a","n","c","e","l","l","e","d">>
  /\ StartsWith(markdown, <<"#"," ","U+1F680">>)
  /\ Len(Split(markdown)) = 5

(* C22: no span of any block has empty content, and every block has at     *)
(* least one span: where a run begins the line, follows another run        *)
(* directly or ends the line, nothing is emitted for the empty text there. *)
C22_NoEmptySpan ==
  pc = "blocks" =>
    \A k \in 1..Len(blocks) :
      /\ Len(blocks[k].rich_text) >= 1
      /\ \A n \in 1..Len(blocks[k].rich_text) : Len(blocks[k].rich_text[n].content) >= 1

\* A line that is a link directly followed by an italic run gave those two
\* spans and nothing before, between or after them.
C22_Witness ==
  /\ pc = "blocks"
  /\ markdown = <<"[","a","]","(","a",")","*","a","*">>
  /\ LineSpans = << LinkSpan(<<"a">>, <<"a">>), ItalicSpan(<<"a">>) >>
----------------------------------------------------------------------------
(* The release summary: _create_simple_summary counts the bullet lines of  *)
(* the changelog by section and words the counts.                          *)

\* What an f-string writes for a non-negative int.
RECURSIVE Decimal(_)
Decimal(n) ==
  LET digit == << <<"0">>, <<"1">>, <<"2">>, <<"3">>, <<"4">>,
                  <<"5">>, <<"6">>, <<"7">>, <<"8">>, <<"9">> >>[(n % 10) + 1]
  IN  IF n < 10 THEN digit ELSE Decimal(n \div 10) \o digit

NoCounts == [bug_fixes |-> 0, new_features |-> 0, improvements |-> 0, other_changes |-> 0]

\* The loop over the lines: lines[k..] remain, current_section and the four
\* counters are as the lines before k left them.
RECURSIVE SummaryScan(_, _, _, _)
SummaryScan(lines, k, current_section, counts) ==
  IF k > Len(lines) THEN counts
  ELSE
    LET line == Strip(lines[k]) IN
    IF StartsWith(line, <<"#","#"," ","U+1F41B"," ","B","u","g"," ","F","i",
                         "x","e","s">>)
    THEN SummaryScan(lines, k + 1, "bug_fixes", counts)
    ELSE IF StartsWith(line, <<"#","#"," ","U+2728"," ","N","e","w"," ","F","e",
                         "a","t","u","r","e","s">>)
    THEN SummaryScan(lines, k + 1, "new_features", counts)
    ELSE IF StartsWith(line, <<"#","#"," ","U+26A1"," ","I","m","p","r","o","v",
                         "e","m","e","n","t","s">>)
    THEN SummaryScan(lines, k + 1, "improvements", counts)
    ELSE IF StartsWith(line, <<"-"," ">>) /\ current_section # ""
    THEN SummaryScan(lines, k + 1, current_section,
           IF current_section = "bug_fixes"
           THEN [counts EXCEPT !.bug_fixes = @ + 1]
           ELSE IF current_section = "new_features"
           THEN [counts EXCEPT !.new_features = @ + 1]
           ELSE IF current_section = "improvements"
           THEN [counts EXCEPT !.improvements = @ + 1]
           ELSE [counts EXCEPT !.other_changes = @ + 1])
    ELSE SummaryScan(lines, k + 1, current_section, counts)

\* The four counters after the loop.
SummaryCounts(markdown_content) ==
  SummaryScan(Split(markdown_content), 1, "", NoCounts)

\* {'s' if n > 1 else ''}
Plural(n, suffix) == IF n > 1 THEN suffix ELSE << >>

GenericSummary ==
  <<"T","h","i","s"," ","r","e","l","e","a","s","e"," ","i","n","c","l","u",
    "d","e","s"," ","v","a","r","i","o","u","s"," ","u","p","d","a","t","e",
    "s"," ","a","n","d"," ","i","m","p","r","o","v","e","m","e","n","t","s",
    " ","t","o"," ","e","n","h","a","n","c","e"," ","t","h","e"," ","o","v",
    "e","r","a","l","l"," ","u","s","e","r"," ","e","x","p","e","r","i","e",
    "n","c","e",".">>

\* " ".join(summary_parts)
RECURSIVE JoinParts(_)
JoinParts(parts) ==
  IF parts = << >> THEN << >>
  ELSE IF Len(parts) = 1 THEN parts[1]
  ELSE parts[1] \o <<" ">> \o JoinParts(Tail(parts))

\* The wording of the four counters.
SummaryText(counts) ==
  LET total_changes == counts.bug_fixes + counts.new_features
                       + counts.improvements + counts.other_changes
      Part(condition, text) == IF condition THEN << text >> ELSE << >>
  IN
  IF total_changes = 0 THEN GenericSummary
  ELSE JoinParts(
    << <<"U+1F3AF"," ","*","*","R","e","l","e","a","s","e"," ","O","v","e",
         "r","v","i","e","w","*","*">>,
       <<"\n","T","h","i","s"," ","r","e","l","e","a","s","e"," ","b","r",
         "i","n","g","s"," ">>
         \o Decimal(total_changes)
         \o <<" ","t","o","t","a","l"," ","c","h","a","n","g","e">>
         \o Plural(total_changes, <<"s">>)
         \o <<" ","t","o"," ","i","m","p","r","o","v","e"," ","y","o","u","r",
           " ","e","x","p","e","r","i","e","n","c","e",":">> >>
    \o Part(counts.new_features > 0,
         <<"U+2022"," ","U+2728"," ","*","*">> \o Decimal(counts.new_features)
         \o <<" ","n","e","w"," ","f","e","a","t","u","r","e">>
         \o Plural(counts.new_features, <<"s">>)
         \o <<"*","*"," ","-"," ","E","x","c","i","t","i","n","g"," ","a","d",
           "d","i","t","i","o","n","s"," ","t","o"," ","e","n","h","a","n",
           "c","e"," ","f","u","n","c","t","i","o","n","a","l","i","t","y">>)
    \o Part(counts.improvements > 0,
         <<"U+2022"," ","U+26A1"," ","*","*">> \o Decimal(counts.improvements)
         \o <<" ","i","m","p","r","o","v","e","m","e","n","t">>
         \o Plural(counts.improvements, <<"s">>)
         \o <<"*","*"," ","-"," ","E","n","h","a","n","c","e","d"," ","p","e",
           "r","f","o","r","m","a","n","c","e"," ","a","n","d"," ","u","s",
           "e","r"," ","e","x","p","e","r","i","e","n","c","e">>)
    \o Part(counts.bug_fixes > 0,
         <<"U+2022"," ","U+1F41B"," ","*","*">> \o Decimal(counts.bug_fixes)
         \o <<" ","b","u","g"," ","f","i","x">>
         \o Plural(counts.bug_fixes, <<"e","s">>)
         \o <<"*","*"," ","-"," ","R","e","s","o","l","v","e","d"," ","i","s",
           "s","u","e","s"," ","f","o","r"," ","s","m","o","o","t","h","e",
           "r"," ","o","p","e","r","a","t","i","o","n">>)
    \o Part(counts.other_changes > 0,
         <<"U+2022"," ","U+1F527"," ","*","*">> \o Decimal(counts.other_changes)
         \o <<" ","o","t","h","e","r"," ","c","h","a","n","g","e">>
         \o Plural(counts.other_changes, <<"s">>)
         \o <<"*","*"," ","-"," ","A","d","d","i","t","i","o","n","a","l"," ",
           "u","p","d","a","t","e","s"," ","a","n","d"," ","r","e","f","i",
           "n","e","m","e","n","t","s">>)
    \o Part(counts.new_features > 0,
         <<"\n","U+1F680"," ","*","*","W","h","a","t","'","s"," ","N","e",
           "w","*","*",":"," ","T","h","i","s"," ","r","e","l","e","a","s",
           "e"," ","i","n","t","r","o","d","u","c","e","s"," ">>
         \o Decimal(counts.new_features)
         \o <<" ","n","e","w"," ","f","e","a","t","u","r","e">>
         \o Plural(counts.new_features, <<"s">>)
         \o <<" ","t","h","a","t"," ","w","i","l","l"," ","e","n","h","a","n",
           "c","e"," ","y","o","u","r"," ","w","o","r","k","f","l","o","w",
           ".">>)
    \o Part(counts.bug_fixes > 0,
         <<"U+1F527"," ","*","*","S","t","a","b","i","l","i","t","y","*",
           "*",":"," ">>
         \o Decimal(counts.bug_fixes)
         \o <<" ","b","u","g"," ","f","i","x">>
         \o Plural(counts.bug_fixes, <<"e","s">>)
         \o <<" ","e","n","s","u","r","e"," ","a"," ","m","o","r","e"," ","r",
           "e","l","i","a","b","l","e"," ","e","x","p","e","r","i","e","n",
           "c","e",".">>)
    \o << <<"\n","U+1F4A1"," ","*","*","R","e","c","o","m","m","e","n","d","a",
         "t","i","o","n","*","*",":"," ","U","p","d","a","t","e"," ","t",
         "o"," ","t","h","i","s"," ","v","e","r","s","i","o","n"," ","t",
         "o"," ","t","a","k","e"," ","a","d","v","a","n","t","a","g","e",
         " ","o","f"," ","t","h","e"," ","l","a","t","e","s","t"," ","i",
         "m","p","r","o","v","e","m","e","n","t","s"," ","a","n","d"," ",
         "n","e","w"," ","f","e","a","t","u","r","e","s",".">> >>)

_create_simple_summary(markdown_content) ==
  SummaryText(SummaryCounts(markdown_content))

----------------------------------------------------------------------------
(* The Notion page: create_release_notes_page, update_existing_page,       *)
(* find_existing_page and _generate_ai_summary.  Every call to the client  *)
(* is a request that blocks, so each is a step of its own, and the calls   *)
(* of other browser sessions may come between two steps of one call.  The *)
(* service gives the n-th page it makes the id PageId(n); every page made  *)
(* has the title of the one release, and a query lists pages that exist.   *)

\* The changelogs the application hands to the integration: of one Done
\* issue labelled Bug, and of one without labels.
Documents ==
  LET issue(n, labels) ==
        [identifier |-> IdentifierOf(n), title |-> TitleOf(n), url |-> None,
         state |-> <<"D","o","n","e">>, labels |-> labels]
  IN  { generate_release_notes(input, <<"1",".","2",".","0">>, clock) :
          input \in { << issue(1, << <<"B","u","g">> >>) >>,
                      << issue(1, << >>) >> },
          clock \in ClockReadings }

\* The blocks and the summary of the changelogs above, worked out once;
\* for any other text they are worked out on the spot.
DocumentBlocks == [document \in Documents |-> _markdown_to_notion_blocks(document)]

DocumentSummary == [document \in Documents |-> _create_simple_summary(document)]

Converted(markdown_content) ==
  IF markdown_content \in Documents THEN DocumentBlocks[markdown_content]
  ELSE _markdown_to_notion_blocks(markdown_content)

Summarised(markdown_content) ==
  IF markdown_content \in Documents THEN DocumentSummary[markdown_content]
  ELSE _create_simple_summary(markdown_content)

True  == <<"T","r","u","e">>
False == <<"F","a","l","s","e">>

\* str(e) of the exception a failed client call raises.
ClientError == <<"A","P","I"," ","e","r","r","o","r">>

\* The id the service gives the n-th page it makes.
PageId(n) == <<"p","a","g","e","-">> \o Decimal(n)

Returned(value) == [kind |-> "returned", value |-> value]
Raised(message) == [kind |-> "raised", value |-> message]

\* One call to the client: what was called, with what, and whether it
\* returned (ok) or raised.
Call(op, detail, ok) == [op |-> op, detail |-> detail, ok |-> ok]

\* str.lower() character by character: the 1433 characters it changes,
\* each with what it becomes (U+0130 becomes two characters).  Capital
\* sigma, U+03A3, is here with its non-final form; Lower looks at its place.
LowerCase ==
  LET pairs == {
        <<"A", <<"a">>>>, <<"B", <<"b">>>>, <<"C", <<"c">>>>, <<"D", <<"d">>>>,
        <<"E", <<"e">>>>, <<"F", <<"f">>>>, <<"G", <<"g">>>>, <<"H", <<"h">>>>,
        <<"I", <<"i">>>>, <<"J", <<"j">>>>, <<"K", <<"k">>>>, <<"L", <<"l">>>>,
        <<"M", <<"m">>>>, <<"N", <<"n">>>>, <<"O", <<"o">>>>, <<"P", <<"p">>>>,
        <<"Q", <<"q">>>>, <<"R", <<"r">>>>, <<"S", <<"s">>>>, <<"T", <<"t">>>>,
        <<"U", <<"u">>>>, <<"V", <<"v">>>>, <<"W", <<"w">>>>, <<"X", <<"x">>>>,
        <<"Y", <<"y">>>>, <<"Z", <<"z">>>>, <<"U+00C0", <<"U+00E0">>>>, <<"U+00C1", <<"U+00E1">>>>,
        <<"U+00C2", <<"U+00E2">>>>, <<"U+00C3", <<"U+00E3">>>>, <<"U+00C4", <<"U+00E4">>>>, <<"U+00C5", <<"U+00E5">>>>,
        <<"U+00C6", <<"U+00E6">>>>, <<"U+00C7", <<"U+00E7">>>>, <<"U+00C8", <<"U+00E8">>>>, <<"U+00C9", <<"U+00E9">>>>,
        <<"U+00CA", <<"U+00EA">>>>, <<"U+00CB", <<"U+00EB">>>>, <<"U+00CC", <<"U+00EC">>>>, <<"U+00CD", <<"U+00ED">>>>,
        <<"U+00CE", <<"U+00EE">>>>, <<"U+00CF", <<"U+00EF">>>>, <<"U+00D0", <<"U+00F0">>>>, <<"U+00D1", <<"U+00F1">>>>,
        <<"U+00D2", <<"U+00F2">>>>, <<"U+00D3", <<"U+00F3">>>>, <<"U+00D4", <<"U+00F4">>>>, <<"U+00D5", <<"U+00F5">>>>,
        <<"U+00D6", <<"U+00F6">>>>, <<"U+00D8", <<"U+00F8">>>>, <<"U+00D9", <<"U+00F9">>>>, <<"U+00DA", <<"U+00FA">>>>,
        <<"U+00DB", <<"U+00FB">>>>, <<"U+00DC", <<"U+00FC">>>>, <<"U+00DD", <<"U+00FD">>>>, <<"U+00DE", <<"U+00FE">>>>,
        <<"U+0100", <<"U+0101">>>>, <<"U+0102", <<"U+0103">>>>, <<"U+0104", <<"U+0105">>>>, <<"U+0106", <<"U+0107">>>>,
        <<"U+0108", <<"U+0109">>>>, <<"U+010A", <<"U+010B">>>>, <<"U+010C", <<"U+010D">>>>, <<"U+010E", <<"U+010F">>>>,
        <<"U+0110", <<"U+0111">>>>, <<"U+0112", <<"U+0113">>>>, <<"U+0114", <<"U+0115">>>>, <<"U+0116", <<"U+0117">>>>,
        <<"U+0118", <<"U+0119">>>>, <<"U+011A", <<"U+011B">>>>, <<"U+011C", <<"U+011D">>>>, <<"U+011E", <<"U+011F">>>>,
        <<"U+0120", <<"U+0121">>>>, <<"U+0122", <<"U+0123">>>>, <<"U+0124", <<"U+0125">>>>, <<"U+0126", <<"U+0127">>>>,
        <<"U+0128", <<"U+0129">>>>, <<"U+012A", <<"U+012B">>>>, <<"U+012C", <<"U+012D">>>>, <<"U+012E", <<"U+012F">>>>,
        <<"U+0130", <<"i", "U+0307">>>>, <<"U+0132", <<"U+0133">>>>, <<"U+0134", <<"U+0135">>>>, <<"U+0136", <<"U+0137">>>>,
        <<"U+0139", <<"U+013A">>>>, <<"U+013B", <<"U+013C">>>>, <<"U+013D", <<"U+013E">>>>, <<"U+013F", <<"U+0140">>>>,
        <<"U+0141", <<"U+0142">>>>, <<"U+0143", <<"U+0144">>>>, <<"U+0145", <<"U+0146">>>>, <<"U+0147", <<"U+0148">>>>,
        <<"U+014A", <<"U+014B">>>>, <<"U+014C", <<"U+014D">>>>, <<"U+014E", <<"U+014F">>>>, <<"U+0150", <<"U+0151">>>>,
        <<"U+0152", <<"U+0153">>>>, <<"U+0154", <<"U+0155">>>>, <<"U+0156", <<"U+0157">>>>, <<"U+0158", <<"U+0159">>>>,
        <<"U+015A", <<"U+015B">>>>, <<"U+015C", <<"U+015D">>>>, <<"U+015E", <<"U+015F">>>>, <<"U+0160", <<"U+0161">>>>,
        <<"U+0162", <<"U+0163">>>>, <<"U+0164", <<"U+0165">>>>, <<"U+0166", <<"U+0167">>>>, <<"U+0168", <<"U+0169">>>>,
        <<"U+016A", <<"U+016B">>>>, <<"U+016C", <<"U+016D">>>>, <<"U+016E", <<"U+016F">>>>, <<"U+0170", <<"U+0171">>>>,
        <<"U+0172", <<"U+0173">>>>, <<"U+0174", <<"U+0175">>>>, <<"U+0176", <<"U+0177">>>>, <<"U+0178", <<"U+00FF">>>>,
        <<"U+0179", <<"U+017A">>>>, <<"U+017B", <<"U+017C">>>>, <<"U+017D", <<"U+017E">>>>, <<"U+0181", <<"U+0253">>>>,
        <<"U+0182", <<"U+0183">>>>, <<"U+0184", <<"U+0185">>>>, <<"U+0186", <<"U+0254">>>>, <<"U+0187", <<"U+0188">>>>,
        <<"U+0189", <<"U+0256">>>>, <<"U+018A", <<"U+0257">>>>, <<"U+018B", <<"U+018C">>>>, <<"U+018E", <<"U+01DD">>>>,
        <<"U+018F", <<"U+0259">>>>, <<"U+0190", <<"U+025B">>>>, <<"U+0191", <<"U+0192">>>>, <<"U+0193", <<"U+0260">>>>,
        <<"U+0194", <<"U+0263">>>>, <<"U+0196", <<"U+0269">>>>, <<"U+0197", <<"U+0268">>>>, <<"U+0198", <<"U+0199">>>>,
        <<"U+019C", <<"U+026F">>>>, <<"U+019D", <<"U+0272">>>>, <<"U+019F", <<"U+0275">>>>, <<"U+01A0", <<"U+01A1">>>>,
        <<"U+01A2", <<"U+01A3">>>>, <<"U+01A4", <<"U+01A5">>>>, <<"U+01A6", <<"U+0280">>>>, <<"U+01A7", <<"U+01A8">>>>,
        <<"U+01A9", <<"U+0283">>>>, <<"U+01AC", <<"U+01AD">>>>, <<"U+01AE", <<"U+0288">>>>, <<"U+01AF", <<"U+01B0">>>>,
        <<"U+01B1", <<"U+028A">>>>, <<"U+01B2", <<"U+028B">>>>, <<"U+01B3", <<"U+01B4">>>>, <<"U+01B5", <<"U+01B6">>>>,
        <<"U+01B7", <<"U+0292">>>>, <<"U+01B8", <<"U+01B9">>>>, <<"U+01BC", <<"U+01BD">>>>, <<"U+01C4", <<"U+01C6">>>>,
        <<"U+01C5", <<"U+01C6">>>>, <<"U+01C7", <<"U+01C9">>>>, <<"U+01C8", <<"U+01C9">>>>, <<"U+01CA", <<"U+01CC">>>>,
        <<"U+01CB", <<"U+01CC">>>>, <<"U+01CD", <<"U+01CE">>>>, <<"U+01CF", <<"U+01D0">>>>, <<"U+01D1", <<"U+01D2">>>>,
        <<"U+01D3", <<"U+01D4">>>>, <<"U+01D5", <<"U+01D6">>>>, <<"U+01D7", <<"U+01D8">>>>, <<"U+01D9", <<"U+01DA">>>>,
        <<"U+01DB", <<"U+01DC">>>>, <<"U+01DE", <<"U+01DF">>>>, <<"U+01E0", <<"U+01E1">>>>, <<"U+01E2", <<"U+01E3">>>>,
        <<"U+01E4", <<"U+01E5">>>>, <<"U+01E6", <<"U+01E7">>>>, <<"U+01E8", <<"U+01E9">>>>, <<"U+01EA", <<"U+01EB">>>>,
        <<"U+01EC", <<"U+01ED">>>>, <<"U+01EE", <<"U+01EF">>>>, <<"U+01F1", <<"U+01F3">>>>, <<"U+01F2", <<"U+01F3">>>>,
        <<"U+01F4", <<"U+01F5">>>>, <<"U+01F6", <<"U+0195">>>>, <<"U+01F7", <<"U+01BF">>>>, <<"U+01F8", <<"U+01F9">>>>,
        <<"U+01FA", <<"U+01FB">>>>, <<"U+01FC", <<"U+01FD">>>>, <<"U+01FE", <<"U+01FF">>>>, <<"U+0200", <<"U+0201">>>>,
        <<"U+0202", <<"U+0203">>>>, <<"U+0204", <<"U+0205">>>>, <<"U+0206", <<"U+0207">>>>, <<"U+0208", <<"U+0209">>>>,
        <<"U+020A", <<"U+020B">>>>, <<"U+020C", <<"U+020D">>>>, <<"U+020E", <<"U+020F">>>>, <<"U+0210", <<"U+0211">>>>,
        <<"U+0212", <<"U+0213">>>>, <<"U+0214", <<"U+0215">>>>, <<"U+0216", <<"U+0217">>>>, <<"U+0218", <<"U+0219">>>>,
        <<"U+021A", <<"U+021B">>>>, <<"U+021C", <<"U+021D">>>>, <<"U+021E", <<"U+021F">>>>, <<"U+0220", <<"U+019E">>>>,
        <<"U+0222", <<"U+0223">>>>, <<"U+0224", <<"U+0225">>>>, <<"U+0226", <<"U+0227">>>>, <<"U+0228", <<"U+0229">>>>,
        <<"U+022A", <<"U+022B">>>>, <<"U+022C", <<"U+022D">>>>, <<"U+022E", <<"U+022F">>>>, <<"U+0230", <<"U+0231">>>>,
        <<"U+0232", <<"U+0233">>>>, <<"U+023A", <<"U+2C65">>>>, <<"U+023B", <<"U+023C">>>>, <<"U+023D", <<"U+019A">>>>,
        <<"U+023E", <<"U+2C66">>>>, <<"U+0241", <<"U+0242">>>>, <<"U+0243", <<"U+0180">>>>, <<"U+0244", <<"U+0289">>>>,
        <<"U+0245", <<"U+028C">>>>, <<"U+0246", <<"U+0247">>>>, <<"U+0248", <<"U+0249">>>>, <<"U+024A", <<"U+024B">>>>,
        <<"U+024C", <<"U+024D">>>>, <<"U+024E", <<"U+024F">>>>, <<"U+0370", <<"U+0371">>>>, <<"U+0372", <<"U+0373">>>>,
        <<"U+0376", <<"U+0377">>>>, <<"U+037F", <<"U+03F3">>>>, <<"U+0386", <<"U+03AC">>>>, <<"U+0388", <<"U+03AD">>>>,
        <<"U+0389", <<"U+03AE">>>>, <<"U+038A", <<"U+03AF">>>>, <<"U+038C", <<"U+03CC">>>>, <<"U+038E", <<"U+03CD">>>>,
        <<"U+038F", <<"U+03CE">>>>, <<"U+0391", <<"U+03B1">>>>, <<"U+0392", <<"U+03B2">>>>, <<"U+0393", <<"U+03B3">>>>,
        <<"U+0394", <<"U+03B4">>>>, <<"U+0395", <<"U+03B5">>>>, <<"U+0396", <<"U+03B6">>>>, <<"U+0397", <<"U+03B7">>>>,
        <<"U+0398", <<"U+03B8">>>>, <<"U+0399", <<"U+03B9">>>>, <<"U+039A", <<"U+03BA">>>>, <<"U+039B", <<"U+03BB">>>>,
        <<"U+039C", <<"U+03BC">>>>, <<"U+039D", <<"U+03BD">>>>, <<"U+039E", <<"U+03BE">>>>, <<"U+039F", <<"U+03BF">>>>,
        <<"U+03A0", <<"U+03C0">>>>, <<"U+03A1", <<"U+03C1">>>>, <<"U+03A3", <<"U+03C3">>>>, <<"U+03A4", <<"U+03C4">>>>,
        <<"U+03A5", <<"U+03C5">>>>, <<"U+03A6", <<"U+03C6">>>>, <<"U+03A7", <<"U+03C7">>>>, <<"U+03A8", <<"U+03C8">>>>,
        <<"U+03A9", <<"U+03C9">>>>, <<"U+03AA", <<"U+03CA">>>>, <<"U+03AB", <<"U+03CB">>>>, <<"U+03CF", <<"U+03D7">>>>,
        <<"U+03D8", <<"U+03D9">>>>, <<"U+03DA", <<"U+03DB">>>>, <<"U+03DC", <<"U+03DD">>>>, <<"U+03DE", <<"U+03DF">>>>,
        <<"U+03E0", <<"U+03E1">>>>, <<"U+03E2", <<"U+03E3">>>>, <<"U+03E4", <<"U+03E5">>>>, <<"U+03E6", <<"U+03E7">>>>,
        <<"U+03E8", <<"U+03E9">>>>, <<"U+03EA", <<"U+03EB">>>>, <<"U+03EC", <<"U+03ED">>>>, <<"U+03EE", <<"U+03EF">>>>,
        <<"U+03F4", <<"U+03B8">>>>, <<"U+03F7", <<"U+03F8">>>>, <<"U+03F9", <<"U+03F2">>>>, <<"U+03FA", <<"U+03FB">>>>,
        <<"U+03FD", <<"U+037B">>>>, <<"U+03FE", <<"U+037C">>>>, <<"U+03FF", <<"U+037D">>>>, <<"U+0400", <<"U+0450">>>>,
        <<"U+0401", <<"U+0451">>>>, <<"U+0402", <<"U+0452">>>>, <<"U+0403", <<"U+0453">>>>, <<"U+0404", <<"U+0454">>>>,
        <<"U+0405", <<"U+0455">>>>, <<"U+0406", <<"U+0456">>>>, <<"U+0407", <<"U+0457">>>>, <<"U+0408", <<"U+0458">>>>,
        <<"U+0409", <<"U+0459">>>>, <<"U+040A", <<"U+045A">>>>, <<"U+040B", <<"U+045B">>>>, <<"U+040C", <<"U+045C">>>>,
        <<"U+040D", <<"U+045D">>>>, <<"U+040E", <<"U+045E">>>>, <<"U+040F", <<"U+045F">>>>, <<"U+0410", <<"U+0430">>>>,
        <<"U+0411", <<"U+0431">>>>, <<"U+0412", <<"U+0432">>>>, <<"U+0413", <<"U+0433">>>>, <<"U+0414", <<"U+0434">>>>,
        <<"U+0415", <<"U+0435">>>>, <<"U+0416", <<"U+0436">>>>, <<"U+0417", <<"U+0437">>>>, <<"U+0418", <<"U+0438">>>>,
        <<"U+0419", <<"U+0439">>>>, <<"U+041A", <<"U+043A">>>>, <<"U+041B", <<"U+043B">>>>, <<"U+041C", <<"U+043C">>>>,
        <<"U+041D", <<"U+043D">>>>, <<"U+041E", <<"U+043E">>>>, <<"U+041F", <<"U+043F">>>>, <<"U+0420", <<"U+0440">>>>,
        <<"U+0421", <<"U+0441">>>>, <<"U+0422", <<"U+0442">>>>, <<"U+0423", <<"U+0443">>>>, <<"U+0424", <<"U+0444">>>>,
        <<"U+0425", <<"U+0445">>>>, <<"U+0426", <<"U+0446">>>>, <<"U+0427", <<"U+0447">>>>, <<"U+0428", <<"U+0448">>>>,
        <<"U+0429", <<"U+0449">>>>, <<"U+042A", <<"U+044A">>>>, <<"U+042B", <<"U+044B">>>>, <<"U+042C", <<"U+044C">>>>,
        <<"U+042D", <<"U+044D">>>>, <<"U+042E", <<"U+044E">>>>, <<"U+042F", <<"U+044F">>>>, <<"U+0460", <<"U+0461">>>>,
        <<"U+0462", <<"U+0463">>>>, <<"U+0464", <<"U+0465">>>>, <<"U+0466", <<"U+0467">>>>, <<"U+0468", <<"U+0469">>>>,
        <<"U+046A", <<"U+046B">>>>, <<"U+046C", <<"U+046D">>>>, <<"U+046E", <<"U+046F">>>>, <<"U+0470", <<"U+0471">>>>,
        <<"U+0472", <<"U+0473">>>>, <<"U+0474", <<"U+0475">>>>, <<"U+0476", <<"U+0477">>>>, <<"U+0478", <<"U+0479">>>>,
        <<"U+047A", <<"U+047B">>>>, <<"U+047C", <<"U+047D">>>>, <<"U+047E", <<"U+047F">>>>, <<"U+0480", <<"U+0481">>>>,
        <<"U+048A", <<"U+048B">>>>, <<"U+048C", <<"U+048D">>>>, <<"U+048E", <<"U+048F">>>>, <<"U+0490", <<"U+0491">>>>,
        <<"U+0492", <<"U+0493">>>>, <<"U+0494", <<"U+0495">>>>, <<"U+0496", <<"U+0497">>>>, <<"U+0498", <<"U+0499">>>>,
        <<"U+049A", <<"U+049B">>>>, <<"U+049C", <<"U+049D">>>>, <<"U+049E", <<"U+049F">>>>, <<"U+04A0", <<"U+04A1">>>>,
        <<"U+04A2", <<"U+04A3">>>>, <<"U+04A4", <<"U+04A5">>>>, <<"U+04A6", <<"U+04A7">>>>, <<"U+04A8", <<"U+04A9">>>>,
        <<"U+04AA", <<"U+04AB">>>>, <<"U+04AC", <<"U+04AD">>>>, <<"U+04AE", <<"U+04AF">>>>, <<"U+04B0", <<"U+04B1">>>>,
        <<"U+04B2", <<"U+04B3">>>>, <<"U+04B4", <<"U+04B5">>>>, <<"U+04B6", <<"U+04B7">>>>, <<"U+04B8", <<"U+04B9">>>>,
        <<"U+04BA", <<"U+04BB">>>>, <<"U+04BC", <<"U+04BD">>>>, <<"U+04BE", <<"U+04BF">>>>, <<"U+04C0", <<"U+04CF">>>>,
        <<"U+04C1", <<"U+04C2">>>>, <<"U+04C3", <<"U+04C4">>>>, <<"U+04C5", <<"U+04C6">>>>, <<"U+04C7", <<"U+04C8">>>>,
        <<"U+04C9", <<"U+04CA">>>>, <<"U+04CB", <<"U+04CC">>>>, <<"U+04CD", <<"U+04CE">>>>, <<"U+04D0", <<"U+04D1">>>>,
        <<"U+04D2", <<"U+04D3">>>>, <<"U+04D4", <<"U+04D5">>>>, <<"U+04D6", <<"U+04D7">>>>, <<"U+04D8", <<"U+04D9">>>>,
        <<"U+04DA", <<"U+04DB">>>>, <<"U+04DC", <<"U+04DD">>>>, <<"U+04DE", <<"U+04DF">>>>, <<"U+04E0", <<"U+04E1">>>>,
        <<"U+04E2", <<"U+04E3">>>>, <<"U+04E4", <<"U+04E5">>>>, <<"U+04E6", <<"U+04E7">>>>, <<"U+04E8", <<"U+04E9">>>>,
        <<"U+04EA", <<"U+04EB">>>>, <<"U+04EC", <<"U+04ED">>>>, <<"U+04EE", <<"U+04EF">>>>, <<"U+04F0", <<"U+04F1">>>>,
        <<"U+04F2", <<"U+04F3">>>>, <<"U+04F4", <<"U+04F5">>>>, <<"U+04F6", <<"U+04F7">>>>, <<"U+04F8", <<"U+04F9">>>>,
        <<"U+04FA", <<"U+04FB">>>>, <<"U+04FC", <<"U+04FD">>>>, <<"U+04FE", <<"U+04FF">>>>, <<"U+0500", <<"U+0501">>>>,
        <<"U+0502", <<"U+0503">>>>, <<"U+0504", <<"U+0505">>>>, <<"U+0506", <<"U+0507">>>>, <<"U+0508", <<"U+0509">>>>,
        <<"U+050A", <<"U+050B">>>>, <<"U+050C", <<"U+050D">>>>, <<"U+050E", <<"U+050F">>>>, <<"U+0510", <<"U+0511">>>>,
        <<"U+0512", <<"U+0513">>>>, <<"U+0514", <<"U+0515">>>>, <<"U+0516", <<"U+0517">>>>, <<"U+0518", <<"U+0519">>>>,
        <<"U+051A", <<"U+051B">>>>, <<"U+051C", <<"U+051D">>>>, <<"U+051E", <<"U+051F">>>>, <<"U+0520", <<"U+0521">>>>,
        <<"U+0522", <<"U+0523">>>>, <<"U+0524", <<"U+0525">>>>, <<"U+0526", <<"U+0527">>>>, <<"U+0528", <<"U+0529">>>>,
        <<"U+052A", <<"U+052B">>>>, <<"U+052C", <<"U+052D">>>>, <<"U+052E", <<"U+052F">>>>, <<"U+0531", <<"U+0561">>>>,
        <<"U+0532", <<"U+0562">>>>, <<"U+0533", <<"U+0563">>>>, <<"U+0534", <<"U+0564">>>>, <<"U+0535", <<"U+0565">>>>,
        <<"U+0536", <<"U+0566">>>>, <<"U+0537", <<"U+0567">>>>, <<"U+0538", <<"U+0568">>>>, <<"U+0539", <<"U+0569">>>>,
        <<"U+053A", <<"U+056A">>>>, <<"U+053B", <<"U+056B">>>>, <<"U+053C", <<"U+056C">>>>, <<"U+053D", <<"U+056D">>>>,
        <<"U+053E", <<"U+056E">>>>, <<"U+053F", <<"U+056F">>>>, <<"U+0540", <<"U+0570">>>>, <<"U+0541", <<"U+0571">>>>,
        <<"U+0542", <<"U+0572">>>>, <<"U+0543", <<"U+0573">>>>, <<"U+0544", <<"U+0574">>>>, <<"U+0545", <<"U+0575">>>>,
        <<"U+0546", <<"U+0576">>>>, <<"U+0547", <<"U+0577">>>>, <<"U+0548", <<"U+0578">>>>, <<"U+0549", <<"U+0579">>>>,
        <<"U+054A", <<"U+057A">>>>, <<"U+054B", <<"U+057B">>>>, <<"U+054C", <<"U+057C">>>>, <<"U+054D", <<"U+057D">>>>,
        <<"U+054E", <<"U+057E">>>>, <<"U+054F", <<"U+057F">>>>, <<"U+0550", <<"U+0580">>>>, <<"U+0551", <<"U+0581">>>>,
        <<"U+0552", <<"U+0582">>>>, <<"U+0553", <<"U+0583">>>>, <<"U+0554", <<"U+0584">>>>, <<"U+0555", <<"U+0585">>>>,
        <<"U+0556", <<"U+0586">>>>, <<"U+10A0", <<"U+2D00">>>>, <<"U+10A1", <<"U+2D01">>>>, <<"U+10A2", <<"U+2D02">>>>,
        <<"U+10A3", <<"U+2D03">>>>, <<"U+10A4", <<"U+2D04">>>>, <<"U+10A5", <<"U+2D05">>>>, <<"U+10A6", <<"U+2D06">>>>,
        <<"U+10A7", <<"U+2D07">>>>, <<"U+10A8", <<"U+2D08">>>>, <<"U+10A9", <<"U+2D09">>>>, <<"U+10AA", <<"U+2D0A">>>>,
        <<"U+10AB", <<"U+2D0B">>>>, <<"U+10AC", <<"U+2D0C">>>>, <<"U+10AD", <<"U+2D0D">>>>, <<"U+10AE", <<"U+2D0E">>>>,
        <<"U+10AF", <<"U+2D0F">>>>, <<"U+10B0", <<"U+2D10">>>>, <<"U+10B1", <<"U+2D11">>>>, <<"U+10B2", <<"U+2D12">>>>,
        <<"U+10B3", <<"U+2D13">>>>, <<"U+10B4", <<"U+2D14">>>>, <<"U+10B5", <<"U+2D15">>>>, <<"U+10B6", <<"U+2D16">>>>,
        <<"U+10B7", <<"U+2D17">>>>, <<"U+10B8", <<"U+2D18">>>>, <<"U+10B9", <<"U+2D19">>>>, <<"U+10BA", <<"U+2D1A">>>>,
        <<"U+10BB", <<"U+2D1B">>>>, <<"U+10BC", <<"U+2D1C">>>>, <<"U+10BD", <<"U+2D1D">>>>, <<"U+10BE", <<"U+2D1E">>>>,
        <<"U+10BF", <<"U+2D1F">>>>, <<"U+10C0", <<"U+2D20">>>>, <<"U+10C1", <<"U+2D21">>>>, <<"U+10C2", <<"U+2D22">>>>,
        <<"U+10C3", <<"U+2D23">>>>, <<"U+10C4", <<"U+2D24">>>>, <<"U+10C5", <<"U+2D25">>>>, <<"U+10C7", <<"U+2D27">>>>,
        <<"U+10CD", <<"U+2D2D">>>>, <<"U+13A0", <<"U+AB70">>>>, <<"U+13A1", <<"U+AB71">>>>, <<"U+13A2", <<"U+AB72">>>>,
        <<"U+13A3", <<"U+AB73">>>>, <<"U+13A4", <<"U+AB74">>>>, <<"U+13A5", <<"U+AB75">>>>, <<"U+13A6", <<"U+AB76">>>>,
        <<"U+13A7", <<"U+AB77">>>>, <<"U+13A8", <<"U+AB78">>>>, <<"U+13A9", <<"U+AB79">>>>, <<"U+13AA", <<"U+AB7A">>>>,
        <<"U+13AB", <<"U+AB7B">>>>, <<"U+13AC", <<"U+AB7C">>>>, <<"U+13AD", <<"U+AB7D">>>>, <<"U+13AE", <<"U+AB7E">>>>,
        <<"U+13AF", <<"U+AB7F">>>>, <<"U+13B0", <<"U+AB80">>>>, <<"U+13B1", <<"U+AB81">>>>, <<"U+13B2", <<"U+AB82">>>>,
        <<"U+13B3", <<"U+AB83">>>>, <<"U+13B4", <<"U+AB84">>>>, <<"U+13B5", <<"U+AB85">>>>, <<"U+13B6", <<"U+AB86">>>>,
        <<"U+13B7", <<"U+AB87">>>>, <<"U+13B8", <<"U+AB88">>>>, <<"U+13B9", <<"U+AB89">>>>, <<"U+13BA", <<"U+AB8A">>>>,
        <<"U+13BB", <<"U+AB8B">>>>, <<"U+13BC", <<"U+AB8C">>>>, <<"U+13BD", <<"U+AB8D">>>>, <<"U+13BE", <<"U+AB8E">>>>,
        <<"U+13BF", <<"U+AB8F">>>>, <<"U+13C0", <<"U+AB90">>>>, <<"U+13C1", <<"U+AB91">>>>, <<"U+13C2", <<"U+AB92">>>>,
        <<"U+13C3", <<"U+AB93">>>>, <<"U+13C4", <<"U+AB94">>>>, <<"U+13C5", <<"U+AB95">>>>, <<"U+13C6", <<"U+AB96">>>>,
        <<"U+13C7", <<"U+AB97">>>>, <<"U+13C8", <<"U+AB98">>>>, <<"U+13C9", <<"U+AB99">>>>, <<"U+13CA", <<"U+AB9A">>>>,
        <<"U+13CB", <<"U+AB9B">>>>, <<"U+13CC", <<"U+AB9C">>>>, <<"U+13CD", <<"U+AB9D">>>>, <<"U+13CE", <<"U+AB9E">>>>,
        <<"U+13CF", <<"U+AB9F">>>>, <<"U+13D0", <<"U+ABA0">>>>, <<"U+13D1", <<"U+ABA1">>>>, <<"U+13D2", <<"U+ABA2">>>>,
        <<"U+13D3", <<"U+ABA3">>>>, <<"U+13D4", <<"U+ABA4">>>>, <<"U+13D5", <<"U+ABA5">>>>, <<"U+13D6", <<"U+ABA6">>>>,
        <<"U+13D7", <<"U+ABA7">>>>, <<"U+13D8", <<"U+ABA8">>>>, <<"U+13D9", <<"U+ABA9">>>>, <<"U+13DA", <<"U+ABAA">>>>,
        <<"U+13DB", <<"U+ABAB">>>>, <<"U+13DC", <<"U+ABAC">>>>, <<"U+13DD", <<"U+ABAD">>>>, <<"U+13DE", <<"U+ABAE">>>>,
        <<"U+13DF", <<"U+ABAF">>>>, <<"U+13E0", <<"U+ABB0">>>>, <<"U+13E1", <<"U+ABB1">>>>, <<"U+13E2", <<"U+ABB2">>>>,
        <<"U+13E3", <<"U+ABB3">>>>, <<"U+13E4", <<"U+ABB4">>>>, <<"U+13E5", <<"U+ABB5">>>>, <<"U+13E6", <<"U+ABB6">>>>,
        <<"U+13E7", <<"U+ABB7">>>>, <<"U+13E8", <<"U+ABB8">>>>, <<"U+13E9", <<"U+ABB9">>>>, <<"U+13EA", <<"U+ABBA">>>>,
        <<"U+13EB", <<"U+ABBB">>>>, <<"U+13EC", <<"U+ABBC">>>>, <<"U+13ED", <<"U+ABBD">>>>, <<"U+13EE", <<"U+ABBE">>>>,
        <<"U+13EF", <<"U+ABBF">>>>, <<"U+13F0", <<"U+13F8">>>>, <<"U+13F1", <<"U+13F9">>>>, <<"U+13F2", <<"U+13FA">>>>,
        <<"U+13F3", <<"U+13FB">>>>, <<"U+13F4", <<"U+13FC">>>>, <<"U+13F5", <<"U+13FD">>>>, <<"U+1C90", <<"U+10D0">>>>,
        <<"U+1C91", <<"U+10D1">>>>, <<"U+1C92", <<"U+10D2">>>>, <<"U+1C93", <<"U+10D3">>>>, <<"U+1C94", <<"U+10D4">>>>,
        <<"U+1C95", <<"U+10D5">>>>, <<"U+1C96", <<"U+10D6">>>>, <<"U+1C97", <<"U+10D7">>>>, <<"U+1C98", <<"U+10D8">>>>,
        <<"U+1C99", <<"U+10D9">>>>, <<"U+1C9A", <<"U+10DA">>>>, <<"U+1C9B", <<"U+10DB">>>>, <<"U+1C9C", <<"U+10DC">>>>,
        <<"U+1C9D", <<"U+10DD">>>>, <<"U+1C9E", <<"U+10DE">>>>, <<"U+1C9F", <<"U+10DF">>>>, <<"U+1CA0", <<"U+10E0">>>>,
        <<"U+1CA1", <<"U+10E1">>>>, <<"U+1CA2", <<"U+10E2">>>>, <<"U+1CA3", <<"U+10E3">>>>, <<"U+1CA4", <<"U+10E4">>>>,
        <<"U+1CA5", <<"U+10E5">>>>, <<"U+1CA6", <<"U+10E6">>>>, <<"U+1CA7", <<"U+10E7">>>>, <<"U+1CA8", <<"U+10E8">>>>,
        <<"U+1CA9", <<"U+10E9">>>>, <<"U+1CAA", <<"U+10EA">>>>, <<"U+1CAB", <<"U+10EB">>>>, <<"U+1CAC", <<"U+10EC">>>>,
        <<"U+1CAD", <<"U+10ED">>>>, <<"U+1CAE", <<"U+10EE">>>>, <<"U+1CAF", <<"U+10EF">>>>, <<"U+1CB0", <<"U+10F0">>>>,
        <<"U+1CB1", <<"U+10F1">>>>, <<"U+1CB2", <<"U+10F2">>>>, <<"U+1CB3", <<"U+10F3">>>>, <<"U+1CB4", <<"U+10F4">>>>,
        <<"U+1CB5", <<"U+10F5">>>>, <<"U+1CB6", <<"U+10F6">>>>, <<"U+1CB7", <<"U+10F7">>>>, <<"U+1CB8", <<"U+10F8">>>>,
        <<"U+1CB9", <<"U+10F9">>>>, <<"U+1CBA", <<"U+10FA">>>>, <<"U+1CBD", <<"U+10FD">>>>, <<"U+1CBE", <<"U+10FE">>>>,
        <<"U+1CBF", <<"U+10FF">>>>, <<"U+1E00", <<"U+1E01">>>>, <<"U+1E02", <<"U+1E03">>>>, <<"U+1E04", <<"U+1E05">>>>,
        <<"U+1E06", <<"U+1E07">>>>, <<"U+1E08", <<"U+1E09">>>>, <<"U+1E0A", <<"U+1E0B">>>>, <<"U+1E0C", <<"U+1E0D">>>>,
        <<"U+1E0E", <<"U+1E0F">>>>, <<"U+1E10", <<"U+1E11">>>>, <<"U+1E12", <<"U+1E13">>>>, <<"U+1E14", <<"U+1E15">>>>,
        <<"U+1E16", <<"U+1E17">>>>, <<"U+1E18", <<"U+1E19">>>>, <<"U+1E1A", <<"U+1E1B">>>>, <<"U+1E1C", <<"U+1E1D">>>>,
        <<"U+1E1E", <<"U+1E1F">>>>, <<"U+1E20", <<"U+1E21">>>>, <<"U+1E22", <<"U+1E23">>>>, <<"U+1E24", <<"U+1E25">>>>,
        <<"U+1E26", <<"U+1E27">>>>, <<"U+1E28", <<"U+1E29">>>>, <<"U+1E2A", <<"U+1E2B">>>>, <<"U+1E2C", <<"U+1E2D">>>>,
        <<"U+1E2E", <<"U+1E2F">>>>, <<"U+1E30", <<"U+1E31">>>>, <<"U+1E32", <<"U+1E33">>>>, <<"U+1E34", <<"U+1E35">>>>,
        <<"U+1E36", <<"U+1E37">>>>, <<"U+1E38", <<"U+1E39">>>>, <<"U+1E3A", <<"U+1E3B">>>>, <<"U+1E3C", <<"U+1E3D">>>>,
        <<"U+1E3E", <<"U+1E3F">>>>, <<"U+1E40", <<"U+1E41">>>>, <<"U+1E42", <<"U+1E43">>>>, <<"U+1E44", <<"U+1E45">>>>,
        <<"U+1E46", <<"U+1E47">>>>, <<"U+1E48", <<"U+1E49">>>>, <<"U+1E4A", <<"U+1E4B">>>>, <<"U+1E4C", <<"U+1E4D">>>>,
        <<"U+1E4E", <<"U+1E4F">>>>, <<"U+1E50", <<"U+1E51">>>>, <<"U+1E52", <<"U+1E53">>>>, <<"U+1E54", <<"U+1E55">>>>,
        <<"U+1E56", <<"U+1E57">>>>, <<"U+1E58", <<"U+1E59">>>>, <<"U+1E5A", <<"U+1E5B">>>>, <<"U+1E5C", <<"U+1E5D">>>>,
        <<"U+1E5E", <<"U+1E5F">>>>, <<"U+1E60", <<"U+1E61">>>>, <<"U+1E62", <<"U+1E63">>>>, <<"U+1E64", <<"U+1E65">>>>,
        <<"U+1E66", <<"U+1E67">>>>, <<"U+1E68", <<"U+1E69">>>>, <<"U+1E6A", <<"U+1E6B">>>>, <<"U+1E6C", <<"U+1E6D">>>>,
        <<"U+1E6E", <<"U+1E6F">>>>, <<"U+1E70", <<"U+1E71">>>>, <<"U+1E72", <<"U+1E73">>>>, <<"U+1E74", <<"U+1E75">>>>,
        <<"U+1E76", <<"U+1E77">>>>, <<"U+1E78", <<"U+1E79">>>>, <<"U+1E7A", <<"U+1E7B">>>>, <<"U+1E7C", <<"U+1E7D">>>>,
        <<"U+1E7E", <<"U+1E7F">>>>, <<"U+1E80", <<"U+1E81">>>>, <<"U+1E82", <<"U+1E83">>>>, <<"U+1E84", <<"U+1E85">>>>,
        <<"U+1E86", <<"U+1E87">>>>, <<"U+1E88", <<"U+1E89">>>>, <<"U+1E8A", <<"U+1E8B">>>>, <<"U+1E8C", <<"U+1E8D">>>>,
        <<"U+1E8E", <<"U+1E8F">>>>, <<"U+1E90", <<"U+1E91">>>>, <<"U+1E92", <<"U+1E93">>>>, <<"U+1E94", <<"U+1E95">>>>,
        <<"U+1E9E", <<"U+00DF">>>>, <<"U+1EA0", <<"U+1EA1">>>>, <<"U+1EA2", <<"U+1EA3">>>>, <<"U+1EA4", <<"U+1EA5">>>>,
        <<"U+1EA6", <<"U+1EA7">>>>, <<"U+1EA8", <<"U+1EA9">>>>, <<"U+1EAA", <<"U+1EAB">>>>, <<"U+1EAC", <<"U+1EAD">>>>,
        <<"U+1EAE", <<"U+1EAF">>>>, <<"U+1EB0", <<"U+1EB1">>>>, <<"U+1EB2", <<"U+1EB3">>>>, <<"U+1EB4", <<"U+1EB5">>>>,
        <<"U+1EB6", <<"U+1EB7">>>>, <<"U+1EB8", <<"U+1EB9">>>>, <<"U+1EBA", <<"U+1EBB">>>>, <<"U+1EBC", <<"U+1EBD">>>>,
        <<"U+1EBE", <<"U+1EBF">>>>, <<"U+1EC0", <<"U+1EC1">>>>, <<"U+1EC2", <<"U+1EC3">>>>, <<"U+1EC4", <<"U+1EC5">>>>,
        <<"U+1EC6", <<"U+1EC7">>>>, <<"U+1EC8", <<"U+1EC9">>>>, <<"U+1ECA", <<"U+1ECB">>>>, <<"U+1ECC", <<"U+1ECD">>>>,
        <<"U+1ECE", <<"U+1ECF">>>>, <<"U+1ED0", <<"U+1ED1">>>>, <<"U+1ED2", <<"U+1ED3">>>>, <<"U+1ED4", <<"U+1ED5">>>>,
        <<"U+1ED6", <<"U+1ED7">>>>, <<"U+1ED8", <<"U+1ED9">>>>, <<"U+1EDA", <<"U+1EDB">>>>, <<"U+1EDC", <<"U+1EDD">>>>,
        <<"U+1EDE", <<"U+1EDF">>>>, <<"U+1EE0", <<"U+1EE1">>>>, <<"U+1EE2", <<"U+1EE3">>>>, <<"U+1EE4", <<"U+1EE5">>>>,
        <<"U+1EE6", <<"U+1EE7">>>>, <<"U+1EE8", <<"U+1EE9">>>>, <<"U+1EEA", <<"U+1EEB">>>>, <<"U+1EEC", <<"U+1EED">>>>,
        <<"U+1EEE", <<"U+1EEF">>>>, <<"U+1EF0", <<"U+1EF1">>>>, <<"U+1EF2", <<"U+1EF3">>>>, <<"U+1EF4", <<"U+1EF5">>>>,
        <<"U+1EF6", <<"U+1EF7">>>>, <<"U+1EF8", <<"U+1EF9">>>>, <<"U+1EFA", <<"U+1EFB">>>>, <<"U+1EFC", <<"U+1EFD">>>>,
        <<"U+1EFE", <<"U+1EFF">>>>, <<"U+1F08", <<"U+1F00">>>>, <<"U+1F09", <<"U+1F01">>>>, <<"U+1F0A", <<"U+1F02">>>>,
        <<"U+1F0B", <<"U+1F03">>>>, <<"U+1F0C", <<"U+1F04">>>>, <<"U+1F0D", <<"U+1F05">>>>, <<"U+1F0E", <<"U+1F06">>>>,
        <<"U+1F0F", <<"U+1F07">>>>, <<"U+1F18", <<"U+1F10">>>>, <<"U+1F19", <<"U+1F11">>>>, <<"U+1F1A", <<"U+1F12">>>>,
        <<"U+1F1B", <<"U+1F13">>>>, <<"U+1F1C", <<"U+1F14">>>>, <<"U+1F1D", <<"U+1F15">>>>, <<"U+1F28", <<"U+1F20">>>>,
        <<"U+1F29", <<"U+1F21">>>>, <<"U+1F2A", <<"U+1F22">>>>, <<"U+1F2B", <<"U+1F23">>>>, <<"U+1F2C", <<"U+1F24">>>>,
        <<"U+1F2D", <<"U+1F25">>>>, <<"U+1F2E", <<"U+1F26">>>>, <<"U+1F2F", <<"U+1F27">>>>, <<"U+1F38", <<"U+1F30">>>>,
        <<"U+1F39", <<"U+1F31">>>>, <<"U+1F3A", <<"U+1F32">>>>, <<"U+1F3B", <<"U+1F33">>>>, <<"U+1F3C", <<"U+1F34">>>>,
        <<"U+1F3D", <<"U+1F35">>>>, <<"U+1F3E", <<"U+1F36">>>>, <<"U+1F3F", <<"U+1F37">>>>, <<"U+1F48", <<"U+1F40">>>>,
        <<"U+1F49", <<"U+1F41">>>>, <<"U+1F4A", <<"U+1F42">>>>, <<"U+1F4B", <<"U+1F43">>>>, <<"U+1F4C", <<"U+1F44">>>>,
        <<"U+1F4D", <<"U+1F45">>>>, <<"U+1F59", <<"U+1F51">>>>, <<"U+1F5B", <<"U+1F53">>>>, <<"U+1F5D", <<"U+1F55">>>>,
        <<"U+1F5F", <<"U+1F57">>>>, <<"U+1F68", <<"U+1F60">>>>, <<"U+1F69", <<"U+1F61">>>>, <<"U+1F6A", <<"U+1F62">>>>,
        <<"U+1F6B", <<"U+1F63">>>>, <<"U+1F6C", <<"U+1F64">>>>, <<"U+1F6D", <<"U+1F65">>>>, <<"U+1F6E", <<"U+1F66">>>>,
        <<"U+1F6F", <<"U+1F67">>>>, <<"U+1F88", <<"U+1F80">>>>, <<"U+1F89", <<"U+1F81">>>>, <<"U+1F8A", <<"U+1F82">>>>,
        <<"U+1F8B", <<"U+1F83">>>>, <<"U+1F8C", <<"U+1F84">>>>, <<"U+1F8D", <<"U+1F85">>>>, <<"U+1F8E", <<"U+1F86">>>>,
        <<"U+1F8F", <<"U+1F87">>>>, <<"U+1F98", <<"U+1F90">>>>, <<"U+1F99", <<"U+1F91">>>>, <<"U+1F9A", <<"U+1F92">>>>,
        <<"U+1F9B", <<"U+1F93">>>>, <<"U+1F9C", <<"U+1F94">>>>, <<"U+1F9D", <<"U+1F95">>>>, <<"U+1F9E", <<"U+1F96">>>>,
        <<"U+1F9F", <<"U+1F97">>>>, <<"U+1FA8", <<"U+1FA0">>>>, <<"U+1FA9", <<"U+1FA1">>>>, <<"U+1FAA", <<"U+1FA2">>>>,
        <<"U+1FAB", <<"U+1FA3">>>>, <<"U+1FAC", <<"U+1FA4">>>>, <<"U+1FAD", <<"U+1FA5">>>>, <<"U+1FAE", <<"U+1FA6">>>>,
        <<"U+1FAF", <<"U+1FA7">>>>, <<"U+1FB8", <<"U+1FB0">>>>, <<"U+1FB9", <<"U+1FB1">>>>, <<"U+1FBA", <<"U+1F70">>>>,
        <<"U+1FBB", <<"U+1F71">>>>, <<"U+1FBC", <<"U+1FB3">>>>, <<"U+1FC8", <<"U+1F72">>>>, <<"U+1FC9", <<"U+1F73">>>>,
        <<"U+1FCA", <<"U+1F74">>>>, <<"U+1FCB", <<"U+1F75">>>>, <<"U+1FCC", <<"U+1FC3">>>>, <<"U+1FD8", <<"U+1FD0">>>>,
        <<"U+1FD9", <<"U+1FD1">>>>, <<"U+1FDA", <<"U+1F76">>>>, <<"U+1FDB", <<"U+1F77">>>>, <<"U+1FE8", <<"U+1FE0">>>>,
        <<"U+1FE9", <<"U+1FE1">>>>, <<"U+1FEA", <<"U+1F7A">>>>, <<"U+1FEB", <<"U+1F7B">>>>, <<"U+1FEC", <<"U+1FE5">>>>,
        <<"U+1FF8", <<"U+1F78">>>>, <<"U+1FF9", <<"U+1F79">>>>, <<"U+1FFA", <<"U+1F7C">>>>, <<"U+1FFB", <<"U+1F7D">>>>,
        <<"U+1FFC", <<"U+1FF3">>>>, <<"U+2126", <<"U+03C9">>>>, <<"U+212A", <<"k">>>>, <<"U+212B", <<"U+00E5">>>>,
        <<"U+2132", <<"U+214E">>>>, <<"U+2160", <<"U+2170">>>>, <<"U+2161", <<"U+2171">>>>, <<"U+2162", <<"U+2172">>>>,
        <<"U+2163", <<"U+2173">>>>, <<"U+2164", <<"U+2174">>>>, <<"U+2165", <<"U+2175">>>>, <<"U+2166", <<"U+2176">>>>,
        <<"U+2167", <<"U+2177">>>>, <<"U+2168", <<"U+2178">>>>, <<"U+2169", <<"U+2179">>>>, <<"U+216A", <<"U+217A">>>>,
        <<"U+216B", <<"U+217B">>>>, <<"U+216C", <<"U+217C">>>>, <<"U+216D", <<"U+217D">>>>, <<"U+216E", <<"U+217E">>>>,
        <<"U+216F", <<"U+217F">>>>, <<"U+2183", <<"U+2184">>>>, <<"U+24B6", <<"U+24D0">>>>, <<"U+24B7", <<"U+24D1">>>>,
        <<"U+24B8", <<"U+24D2">>>>, <<"U+24B9", <<"U+24D3">>>>, <<"U+24BA", <<"U+24D4">>>>, <<"U+24BB", <<"U+24D5">>>>,
        <<"U+24BC", <<"U+24D6">>>>, <<"U+24BD", <<"U+24D7">>>>, <<"U+24BE", <<"U+24D8">>>>, <<"U+24BF", <<"U+24D9">>>>,
        <<"U+24C0", <<"U+24DA">>>>, <<"U+24C1", <<"U+24DB">>>>, <<"U+24C2", <<"U+24DC">>>>, <<"U+24C3", <<"U+24DD">>>>,
        <<"U+24C4", <<"U+24DE">>>>, <<"U+24C5", <<"U+24DF">>>>, <<"U+24C6", <<"U+24E0">>>>, <<"U+24C7", <<"U+24E1">>>>,
        <<"U+24C8", <<"U+24E2">>>>, <<"U+24C9", <<"U+24E3">>>>, <<"U+24CA", <<"U+24E4">>>>, <<"U+24CB", <<"U+24E5">>>>,
        <<"U+24CC", <<"U+24E6">>>>, <<"U+24CD", <<"U+24E7">>>>, <<"U+24CE", <<"U+24E8">>>>, <<"U+24CF", <<"U+24E9">>>>,
        <<"U+2C00", <<"U+2C30">>>>, <<"U+2C01", <<"U+2C31">>>>, <<"U+2C02", <<"U+2C32">>>>, <<"U+2C03", <<"U+2C33">>>>,
        <<"U+2C04", <<"U+2C34">>>>, <<"U+2C05", <<"U+2C35">>>>, <<"U+2C06", <<"U+2C36">>>>, <<"U+2C07", <<"U+2C37">>>>,
        <<"U+2C08", <<"U+2C38">>>>, <<"U+2C09", <<"U+2C39">>>>, <<"U+2C0A", <<"U+2C3A">>>>, <<"U+2C0B", <<"U+2C3B">>>>,
        <<"U+2C0C", <<"U+2C3C">>>>, <<"U+2C0D", <<"U+2C3D">>>>, <<"U+2C0E", <<"U+2C3E">>>>, <<"U+2C0F", <<"U+2C3F">>>>,
        <<"U+2C10", <<"U+2C40">>>>, <<"U+2C11", <<"U+2C41">>>>, <<"U+2C12", <<"U+2C42">>>>, <<"U+2C13", <<"U+2C43">>>>,
        <<"U+2C14", <<"U+2C44">>>>, <<"U+2C15", <<"U+2C45">>>>, <<"U+2C16", <<"U+2C46">>>>, <<"U+2C17", <<"U+2C47">>>>,
        <<"U+2C18", <<"U+2C48">>>>, <<"U+2C19", <<"U+2C49">>>>, <<"U+2C1A", <<"U+2C4A">>>>, <<"U+2C1B", <<"U+2C4B">>>>,
        <<"U+2C1C", <<"U+2C4C">>>>, <<"U+2C1D", <<"U+2C4D">>>>, <<"U+2C1E", <<"U+2C4E">>>>, <<"U+2C1F", <<"U+2C4F">>>>,
        <<"U+2C20", <<"U+2C50">>>>, <<"U+2C21", <<"U+2C51">>>>, <<"U+2C22", <<"U+2C52">>>>, <<"U+2C23", <<"U+2C53">>>>,
        <<"U+2C24", <<"U+2C54">>>>, <<"U+2C25", <<"U+2C55">>>>, <<"U+2C26", <<"U+2C56">>>>, <<"U+2C27", <<"U+2C57">>>>,
        <<"U+2C28", <<"U+2C58">>>>, <<"U+2C29", <<"U+2C59">>>>, <<"U+2C2A", <<"U+2C5A">>>>, <<"U+2C2B", <<"U+2C5B">>>>,
        <<"U+2C2C", <<"U+2C5C">>>>, <<"U+2C2D", <<"U+2C5D">>>>, <<"U+2C2E", <<"U+2C5E">>>>, <<"U+2C2F", <<"U+2C5F">>>>,
        <<"U+2C60", <<"U+2C61">>>>, <<"U+2C62", <<"U+026B">>>>, <<"U+2C63", <<"U+1D7D">>>>, <<"U+2C64", <<"U+027D">>>>,
        <<"U+2C67", <<"U+2C68">>>>, <<"U+2C69", <<"U+2C6A">>>>, <<"U+2C6B", <<"U+2C6C">>>>, <<"U+2C6D", <<"U+0251">>>>,
        <<"U+2C6E", <<"U+0271">>>>, <<"U+2C6F", <<"U+0250">>>>, <<"U+2C70", <<"U+0252">>>>, <<"U+2C72", <<"U+2C73">>>>,
        <<"U+2C75", <<"U+2C76">>>>, <<"U+2C7E", <<"U+023F">>>>, <<"U+2C7F", <<"U+0240">>>>, <<"U+2C80", <<"U+2C81">>>>,
        <<"U+2C82", <<"U+2C83">>>>, <<"U+2C84", <<"U+2C85">>>>, <<"U+2C86", <<"U+2C87">>>>, <<"U+2C88", <<"U+2C89">>>>,
        <<"U+2C8A", <<"U+2C8B">>>>, <<"U+2C8C", <<"U+2C8D">>>>, <<"U+2C8E", <<"U+2C8F">>>>, <<"U+2C90", <<"U+2C91">>>>,
        <<"U+2C92", <<"U+2C93">>>>, <<"U+2C94", <<"U+2C95">>>>, <<"U+2C96", <<"U+2C97">>>>, <<"U+2C98", <<"U+2C99">>>>,
        <<"U+2C9A", <<"U+2C9B">>>>, <<"U+2C9C", <<"U+2C9D">>>>, <<"U+2C9E", <<"U+2C9F">>>>, <<"U+2CA0", <<"U+2CA1">>>>,
        <<"U+2CA2", <<"U+2CA3">>>>, <<"U+2CA4", <<"U+2CA5">>>>, <<"U+2CA6", <<"U+2CA7">>>>, <<"U+2CA8", <<"U+2CA9">>>>,
        <<"U+2CAA", <<"U+2CAB">>>>, <<"U+2CAC", <<"U+2CAD">>>>, <<"U+2CAE", <<"U+2CAF">>>>, <<"U+2CB0", <<"U+2CB1">>>>,
        <<"U+2CB2", <<"U+2CB3">>>>, <<"U+2CB4", <<"U+2CB5">>>>, <<"U+2CB6", <<"U+2CB7">>>>, <<"U+2CB8", <<"U+2CB9">>>>,
        <<"U+2CBA", <<"U+2CBB">>>>, <<"U+2CBC", <<"U+2CBD">>>>, <<"U+2CBE", <<"U+2CBF">>>>, <<"U+2CC0", <<"U+2CC1">>>>,
        <<"U+2CC2", <<"U+2CC3">>>>, <<"U+2CC4", <<"U+2CC5">>>>, <<"U+2CC6", <<"U+2CC7">>>>, <<"U+2CC8", <<"U+2CC9">>>>,
        <<"U+2CCA", <<"U+2CCB">>>>, <<"U+2CCC", <<"U+2CCD">>>>, <<"U+2CCE", <<"U+2CCF">>>>, <<"U+2CD0", <<"U+2CD1">>>>,
        <<"U+2CD2", <<"U+2CD3">>>>, <<"U+2CD4", <<"U+2CD5">>>>, <<"U+2CD6", <<"U+2CD7">>>>, <<"U+2CD8", <<"U+2CD9">>>>,
        <<"U+2CDA", <<"U+2CDB">>>>, <<"U+2CDC", <<"U+2CDD">>>>, <<"U+2CDE", <<"U+2CDF">>>>, <<"U+2CE0", <<"U+2CE1">>>>,
        <<"U+2CE2", <<"U+2CE3">>>>, <<"U+2CEB", <<"U+2CEC">>>>, <<"U+2CED", <<"U+2CEE">>>>, <<"U+2CF2", <<"U+2CF3">>>>,
        <<"U+A640", <<"U+A641">>>>, <<"U+A642", <<"U+A643">>>>, <<"U+A644", <<"U+A645">>>>, <<"U+A646", <<"U+A647">>>>,
        <<"U+A648", <<"U+A649">>>>, <<"U+A64A", <<"U+A64B">>>>, <<"U+A64C", <<"U+A64D">>>>, <<"U+A64E", <<"U+A64F">>>>,
        <<"U+A650", <<"U+A651">>>>, <<"U+A652", <<"U+A653">>>>, <<"U+A654", <<"U+A655">>>>, <<"U+A656", <<"U+A657">>>>,
        <<"U+A658", <<"U+A659">>>>, <<"U+A65A", <<"U+A65B">>>>, <<"U+A65C", <<"U+A65D">>>>, <<"U+A65E", <<"U+A65F">>>>,
        <<"U+A660", <<"U+A661">>>>, <<"U+A662", <<"U+A663">>>>, <<"U+A664", <<"U+A665">>>>, <<"U+A666", <<"U+A667">>>>,
        <<"U+A668", <<"U+A669">>>>, <<"U+A66A", <<"U+A66B">>>>, <<"U+A66C", <<"U+A66D">>>>, <<"U+A680", <<"U+A681">>>>,
        <<"U+A682", <<"U+A683">>>>, <<"U+A684", <<"U+A685">>>>, <<"U+A686", <<"U+A687">>>>, <<"U+A688", <<"U+A689">>>>,
        <<"U+A68A", <<"U+A68B">>>>, <<"U+A68C", <<"U+A68D">>>>, <<"U+A68E", <<"U+A68F">>>>, <<"U+A690", <<"U+A691">>>>,
        <<"U+A692", <<"U+A693">>>>, <<"U+A694", <<"U+A695">>>>, <<"U+A696", <<"U+A697">>>>, <<"U+A698", <<"U+A699">>>>,
        <<"U+A69A", <<"U+A69B">>>>, <<"U+A722", <<"U+A723">>>>, <<"U+A724", <<"U+A725">>>>, <<"U+A726", <<"U+A727">>>>,
        <<"U+A728", <<"U+A729">>>>, <<"U+A72A", <<"U+A72B">>>>, <<"U+A72C", <<"U+A72D">>>>, <<"U+A72E", <<"U+A72F">>>>,
        <<"U+A732", <<"U+A733">>>>, <<"U+A734", <<"U+A735">>>>, <<"U+A736", <<"U+A737">>>>, <<"U+A738", <<"U+A739">>>>,
        <<"U+A73A", <<"U+A73B">>>>, <<"U+A73C", <<"U+A73D">>>>, <<"U+A73E", <<"U+A73F">>>>, <<"U+A740", <<"U+A741">>>>,
        <<"U+A742", <<"U+A743">>>>, <<"U+A744", <<"U+A745">>>>, <<"U+A746", <<"U+A747">>>>, <<"U+A748", <<"U+A749">>>>,
        <<"U+A74A", <<"U+A74B">>>>, <<"U+A74C", <<"U+A74D">>>>, <<"U+A74E", <<"U+A74F">>>>, <<"U+A750", <<"U+A751">>>>,
        <<"U+A752", <<"U+A753">>>>, <<"U+A754", <<"U+A755">>>>, <<"U+A756", <<"U+A757">>>>, <<"U+A758", <<"U+A759">>>>,
        <<"U+A75A", <<"U+A75B">>>>, <<"U+A75C", <<"U+A75D">>>>, <<"U+A75E", <<"U+A75F">>>>, <<"U+A760", <<"U+A761">>>>,
        <<"U+A762", <<"U+A763">>>>, <<"U+A764", <<"U+A765">>>>, <<"U+A766", <<"U+A767">>>>, <<"U+A768", <<"U+A769">>>>,
        <<"U+A76A", <<"U+A76B">>>>, <<"U+A76C", <<"U+A76D">>>>, <<"U+A76E", <<"U+A76F">>>>, <<"U+A779", <<"U+A77A">>>>,
        <<"U+A77B", <<"U+A77C">>>>, <<"U+A77D", <<"U+1D79">>>>, <<"U+A77E", <<"U+A77F">>>>, <<"U+A780", <<"U+A781">>>>,
        <<"U+A782", <<"U+A783">>>>, <<"U+A784", <<"U+A785">>>>, <<"U+A786", <<"U+A787">>>>, <<"U+A78B", <<"U+A78C">>>>,
        <<"U+A78D", <<"U+0265">>>>, <<"U+A790", <<"U+A791">>>>, <<"U+A792", <<"U+A793">>>>, <<"U+A796", <<"U+A797">>>>,
        <<"U+A798", <<"U+A799">>>>, <<"U+A79A", <<"U+A79B">>>>, <<"U+A79C", <<"U+A79D">>>>, <<"U+A79E", <<"U+A79F">>>>,
        <<"U+A7A0", <<"U+A7A1">>>>, <<"U+A7A2", <<"U+A7A3">>>>, <<"U+A7A4", <<"U+A7A5">>>>, <<"U+A7A6", <<"U+A7A7">>>>,
        <<"U+A7A8", <<"U+A7A9">>>>, <<"U+A7AA", <<"U+0266">>>>, <<"U+A7AB", <<"U+025C">>>>, <<"U+A7AC", <<"U+0261">>>>,
        <<"U+A7AD", <<"U+026C">>>>, <<"U+A7AE", <<"U+026A">>>>, <<"U+A7B0", <<"U+029E">>>>, <<"U+A7B1", <<"U+0287">>>>,
        <<"U+A7B2", <<"U+029D">>>>, <<"U+A7B3", <<"U+AB53">>>>, <<"U+A7B4", <<"U+A7B5">>>>, <<"U+A7B6", <<"U+A7B7">>>>,
        <<"U+A7B8", <<"U+A7B9">>>>, <<"U+A7BA", <<"U+A7BB">>>>, <<"U+A7BC", <<"U+A7BD">>>>, <<"U+A7BE", <<"U+A7BF">>>>,
        <<"U+A7C0", <<"U+A7C1">>>>, <<"U+A7C2", <<"U+A7C3">>>>, <<"U+A7C4", <<"U+A794">>>>, <<"U+A7C5", <<"U+0282">>>>,
        <<"U+A7C6", <<"U+1D8E">>>>, <<"U+A7C7", <<"U+A7C8">>>>, <<"U+A7C9", <<"U+A7CA">>>>, <<"U+A7D0", <<"U+A7D1">>>>,
        <<"U+A7D6", <<"U+A7D7">>>>, <<"U+A7D8", <<"U+A7D9">>>>, <<"U+A7F5", <<"U+A7F6">>>>, <<"U+FF21", <<"U+FF41">>>>,
        <<"U+FF22", <<"U+FF42">>>>, <<"U+FF23", <<"U+FF43">>>>, <<"U+FF24", <<"U+FF44">>>>, <<"U+FF25", <<"U+FF45">>>>,
        <<"U+FF26", <<"U+FF46">>>>, <<"U+FF27", <<"U+FF47">>>>, <<"U+FF28", <<"U+FF48">>>>, <<"U+FF29", <<"U+FF49">>>>,
        <<"U+FF2A", <<"U+FF4A">>>>, <<"U+FF2B", <<"U+FF4B">>>>, <<"U+FF2C", <<"U+FF4C">>>>, <<"U+FF2D", <<"U+FF4D">>>>,
        <<"U+FF2E", <<"U+FF4E">>>>, <<"U+FF2F", <<"U+FF4F">>>>, <<"U+FF30", <<"U+FF50">>>>, <<"U+FF31", <<"U+FF51">>>>,
        <<"U+FF32", <<"U+FF52">>>>, <<"U+FF33", <<"U+FF53">>>>, <<"U+FF34", <<"U+FF54">>>>, <<"U+FF35", <<"U+FF55">>>>,
        <<"U+FF36", <<"U+FF56">>>>, <<"U+FF37", <<"U+FF57">>>>, <<"U+FF38", <<"U+FF58">>>>, <<"U+FF39", <<"U+FF59">>>>,
        <<"U+FF3A", <<"U+FF5A">>>>, <<"U+10400", <<"U+10428">>>>, <<"U+10401", <<"U+10429">>>>, <<"U+10402", <<"U+1042A">>>>,
        <<"U+10403", <<"U+1042B">>>>, <<"U+10404", <<"U+1042C">>>>, <<"U+10405", <<"U+1042D">>>>, <<"U+10406", <<"U+1042E">>>>,
        <<"U+10407", <<"U+1042F">>>>, <<"U+10408", <<"U+10430">>>>, <<"U+10409", <<"U+10431">>>>, <<"U+1040A", <<"U+10432">>>>,
        <<"U+1040B", <<"U+10433">>>>, <<"U+1040C", <<"U+10434">>>>, <<"U+1040D", <<"U+10435">>>>, <<"U+1040E", <<"U+10436">>>>,
        <<"U+1040F", <<"U+10437">>>>, <<"U+10410", <<"U+10438">>>>, <<"U+10411", <<"U+10439">>>>, <<"U+10412", <<"U+1043A">>>>,
        <<"U+10413", <<"U+1043B">>>>, <<"U+10414", <<"U+1043C">>>>, <<"U+10415", <<"U+1043D">>>>, <<"U+10416", <<"U+1043E">>>>,
        <<"U+10417", <<"U+1043F">>>>, <<"U+10418", <<"U+10440">>>>, <<"U+10419", <<"U+10441">>>>, <<"U+1041A", <<"U+10442">>>>,
        <<"U+1041B", <<"U+10443">>>>, <<"U+1041C", <<"U+10444">>>>, <<"U+1041D", <<"U+10445">>>>, <<"U+1041E", <<"U+10446">>>>,
        <<"U+1041F", <<"U+10447">>>>, <<"U+10420", <<"U+10448">>>>, <<"U+10421", <<"U+10449">>>>, <<"U+10422", <<"U+1044A">>>>,
        <<"U+10423", <<"U+1044B">>>>, <<"U+10424", <<"U+1044C">>>>, <<"U+10425", <<"U+1044D">>>>, <<"U+10426", <<"U+1044E">>>>,
        <<"U+10427", <<"U+1044F">>>>, <<"U+104B0", <<"U+104D8">>>>, <<"U+104B1", <<"U+104D9">>>>, <<"U+104B2", <<"U+104DA">>>>,
        <<"U+104B3", <<"U+104DB">>>>, <<"U+104B4", <<"U+104DC">>>>, <<"U+104B5", <<"U+104DD">>>>, <<"U+104B6", <<"U+104DE">>>>,
        <<"U+104B7", <<"U+104DF">>>>, <<"U+104B8", <<"U+104E0">>>>, <<"U+104B9", <<"U+104E1">>>>, <<"U+104BA", <<"U+104E2">>>>,
        <<"U+104BB", <<"U+104E3">>>>, <<"U+104BC", <<"U+104E4">>>>, <<"U+104BD", <<"U+104E5">>>>, <<"U+104BE", <<"U+104E6">>>>,
        <<"U+104BF", <<"U+104E7">>>>, <<"U+104C0", <<"U+104E8">>>>, <<"U+104C1", <<"U+104E9">>>>, <<"U+104C2", <<"U+104EA">>>>,
        <<"U+104C3", <<"U+104EB">>>>, <<"U+104C4", <<"U+104EC">>>>, <<"U+104C5", <<"U+104ED">>>>, <<"U+104C6", <<"U+104EE">>>>,
        <<"U+104C7", <<"U+104EF">>>>, <<"U+104C8", <<"U+104F0">>>>, <<"U+104C9", <<"U+104F1">>>>, <<"U+104CA", <<"U+104F2">>>>,
        <<"U+104CB", <<"U+104F3">>>>, <<"U+104CC", <<"U+104F4">>>>, <<"U+104CD", <<"U+104F5">>>>, <<"U+104CE", <<"U+104F6">>>>,
        <<"U+104CF", <<"U+104F7">>>>, <<"U+104D0", <<"U+104F8">>>>, <<"U+104D1", <<"U+104F9">>>>, <<"U+104D2", <<"U+104FA">>>>,
        <<"U+104D3", <<"U+104FB">>>>, <<"U+10570", <<"U+10597">>>>, <<"U+10571", <<"U+10598">>>>, <<"U+10572", <<"U+10599">>>>,
        <<"U+10573", <<"U+1059A">>>>, <<"U+10574", <<"U+1059B">>>>, <<"U+10575", <<"U+1059C">>>>, <<"U+10576", <<"U+1059D">>>>,
        <<"U+10577", <<"U+1059E">>>>, <<"U+10578", <<"U+1059F">>>>, <<"U+10579", <<"U+105A0">>>>, <<"U+1057A", <<"U+105A1">>>>,
        <<"U+1057C", <<"U+105A3">>>>, <<"U+1057D", <<"U+105A4">>>>, <<"U+1057E", <<"U+105A5">>>>, <<"U+1057F", <<"U+105A6">>>>,
        <<"U+10580", <<"U+105A7">>>>, <<"U+10581", <<"U+105A8">>>>, <<"U+10582", <<"U+105A9">>>>, <<"U+10583", <<"U+105AA">>>>,
        <<"U+10584", <<"U+105AB">>>>, <<"U+10585", <<"U+105AC">>>>, <<"U+10586", <<"U+105AD">>>>, <<"U+10587", <<"U+105AE">>>>,
        <<"U+10588", <<"U+105AF">>>>, <<"U+10589", <<"U+105B0">>>>, <<"U+1058A", <<"U+105B1">>>>, <<"U+1058C", <<"U+105B3">>>>,
        <<"U+1058D", <<"U+105B4">>>>, <<"U+1058E", <<"U+105B5">>>>, <<"U+1058F", <<"U+105B6">>>>, <<"U+10590", <<"U+105B7">>>>,
        <<"U+10591", <<"U+105B8">>>>, <<"U+10592", <<"U+105B9">>>>, <<"U+10594", <<"U+105BB">>>>, <<"U+10595", <<"U+105BC">>>>,
        <<"U+10C80", <<"U+10CC0">>>>, <<"U+10C81", <<"U+10CC1">>>>, <<"U+10C82", <<"U+10CC2">>>>, <<"U+10C83", <<"U+10CC3">>>>,
        <<"U+10C84", <<"U+10CC4">>>>, <<"U+10C85", <<"U+10CC5">>>>, <<"U+10C86", <<"U+10CC6">>>>, <<"U+10C87", <<"U+10CC7">>>>,
        <<"U+10C88", <<"U+10CC8">>>>, <<"U+10C89", <<"U+10CC9">>>>, <<"U+10C8A", <<"U+10CCA">>>>, <<"U+10C8B", <<"U+10CCB">>>>,
        <<"U+10C8C", <<"U+10CCC">>>>, <<"U+10C8D", <<"U+10CCD">>>>, <<"U+10C8E", <<"U+10CCE">>>>, <<"U+10C8F", <<"U+10CCF">>>>,
        <<"U+10C90", <<"U+10CD0">>>>, <<"U+10C91", <<"U+10CD1">>>>, <<"U+10C92", <<"U+10CD2">>>>, <<"U+10C93", <<"U+10CD3">>>>,
        <<"U+10C94", <<"U+10CD4">>>>, <<"U+10C95", <<"U+10CD5">>>>, <<"U+10C96", <<"U+10CD6">>>>, <<"U+10C97", <<"U+10CD7">>>>,
        <<"U+10C98", <<"U+10CD8">>>>, <<"U+10C99", <<"U+10CD9">>>>, <<"U+10C9A", <<"U+10CDA">>>>, <<"U+10C9B", <<"U+10CDB">>>>,
        <<"U+10C9C", <<"U+10CDC">>>>, <<"U+10C9D", <<"U+10CDD">>>>, <<"U+10C9E", <<"U+10CDE">>>>, <<"U+10C9F", <<"U+10CDF">>>>,
        <<"U+10CA0", <<"U+10CE0">>>>, <<"U+10CA1", <<"U+10CE1">>>>, <<"U+10CA2", <<"U+10CE2">>>>, <<"U+10CA3", <<"U+10CE3">>>>,
        <<"U+10CA4", <<"U+10CE4">>>>, <<"U+10CA5", <<"U+10CE5">>>>, <<"U+10CA6", <<"U+10CE6">>>>, <<"U+10CA7", <<"U+10CE7">>>>,
        <<"U+10CA8", <<"U+10CE8">>>>, <<"U+10CA9", <<"U+10CE9">>>>, <<"U+10CAA", <<"U+10CEA">>>>, <<"U+10CAB", <<"U+10CEB">>>>,
        <<"U+10CAC", <<"U+10CEC">>>>, <<"U+10CAD", <<"U+10CED">>>>, <<"U+10CAE", <<"U+10CEE">>>>, <<"U+10CAF", <<"U+10CEF">>>>,
        <<"U+10CB0", <<"U+10CF0">>>>, <<"U+10CB1", <<"U+10CF1">>>>, <<"U+10CB2", <<"U+10CF2">>>>, <<"U+118A0", <<"U+118C0">>>>,
        <<"U+118A1", <<"U+118C1">>>>, <<"U+118A2", <<"U+118C2">>>>, <<"U+118A3", <<"U+118C3">>>>, <<"U+118A4", <<"U+118C4">>>>,
        <<"U+118A5", <<"U+118C5">>>>, <<"U+118A6", <<"U+118C6">>>>, <<"U+118A7", <<"U+118C7">>>>, <<"U+118A8", <<"U+118C8">>>>,
        <<"U+118A9", <<"U+118C9">>>>, <<"U+118AA", <<"U+118CA">>>>, <<"U+118AB", <<"U+118CB">>>>, <<"U+118AC", <<"U+118CC">>>>,
        <<"U+118AD", <<"U+118CD">>>>, <<"U+118AE", <<"U+118CE">>>>, <<"U+118AF", <<"U+118CF">>>>, <<"U+118B0", <<"U+118D0">>>>,
        <<"U+118B1", <<"U+118D1">>>>, <<"U+118B2", <<"U+118D2">>>>, <<"U+118B3", <<"U+118D3">>>>, <<"U+118B4", <<"U+118D4">>>>,
        <<"U+118B5", <<"U+118D5">>>>, <<"U+118B6", <<"U+118D6">>>>, <<"U+118B7", <<"U+118D7">>>>, <<"U+118B8", <<"U+118D8">>>>,
        <<"U+118B9", <<"U+118D9">>>>, <<"U+118BA", <<"U+118DA">>>>, <<"U+118BB", <<"U+118DB">>>>, <<"U+118BC", <<"U+118DC">>>>,
        <<"U+118BD", <<"U+118DD">>>>, <<"U+118BE", <<"U+118DE">>>>, <<"U+118BF", <<"U+118DF">>>>, <<"U+16E40", <<"U+16E60">>>>,
        <<"U+16E41", <<"U+16E61">>>>, <<"U+16E42", <<"U+16E62">>>>, <<"U+16E43", <<"U+16E63">>>>, <<"U+16E44", <<"U+16E64">>>>,
        <<"U+16E45", <<"U+16E65">>>>, <<"U+16E46", <<"U+16E66">>>>, <<"U+16E47", <<"U+16E67">>>>, <<"U+16E48", <<"U+16E68">>>>,
        <<"U+16E49", <<"U+16E69">>>>, <<"U+16E4A", <<"U+16E6A">>>>, <<"U+16E4B", <<"U+16E6B">>>>, <<"U+16E4C", <<"U+16E6C">>>>,
        <<"U+16E4D", <<"U+16E6D">>>>, <<"U+16E4E", <<"U+16E6E">>>>, <<"U+16E4F", <<"U+16E6F">>>>, <<"U+16E50", <<"U+16E70">>>>,
        <<"U+16E51", <<"U+16E71">>>>, <<"U+16E52", <<"U+16E72">>>>, <<"U+16E53", <<"U+16E73">>>>, <<"U+16E54", <<"U+16E74">>>>,
        <<"U+16E55", <<"U+16E75">>>>, <<"U+16E56", <<"U+16E76">>>>, <<"U+16E57", <<"U+16E77">>>>, <<"U+16E58", <<"U+16E78">>>>,
        <<"U+16E59", <<"U+16E79">>>>, <<"U+16E5A", <<"U+16E7A">>>>, <<"U+16E5B", <<"U+16E7B">>>>, <<"U+16E5C", <<"U+16E7C">>>>,
        <<"U+16E5D", <<"U+16E7D">>>>, <<"U+16E5E", <<"U+16E7E">>>>, <<"U+16E5F", <<"U+16E7F">>>>, <<"U+1E900", <<"U+1E922">>>>,
        <<"U+1E901", <<"U+1E923">>>>, <<"U+1E902", <<"U+1E924">>>>, <<"U+1E903", <<"U+1E925">>>>, <<"U+1E904", <<"U+1E926">>>>,
        <<"U+1E905", <<"U+1E927">>>>, <<"U+1E906", <<"U+1E928">>>>, <<"U+1E907", <<"U+1E929">>>>, <<"U+1E908", <<"U+1E92A">>>>,
        <<"U+1E909", <<"U+1E92B">>>>, <<"U+1E90A", <<"U+1E92C">>>>, <<"U+1E90B", <<"U+1E92D">>>>, <<"U+1E90C", <<"U+1E92E">>>>,
        <<"U+1E90D", <<"U+1E92F">>>>, <<"U+1E90E", <<"U+1E930">>>>, <<"U+1E90F", <<"U+1E931">>>>, <<"U+1E910", <<"U+1E932">>>>,
        <<"U+1E911", <<"U+1E933">>>>, <<"U+1E912", <<"U+1E934">>>>, <<"U+1E913", <<"U+1E935">>>>, <<"U+1E914", <<"U+1E936">>>>,
        <<"U+1E915", <<"U+1E937">>>>, <<"U+1E916", <<"U+1E938">>>>, <<"U+1E917", <<"U+1E939">>>>, <<"U+1E918", <<"U+1E93A">>>>,
        <<"U+1E919", <<"U+1E93B">>>>, <<"U+1E91A", <<"U+1E93C">>>>, <<"U+1E91B", <<"U+1E93D">>>>, <<"U+1E91C", <<"U+1E93E">>>>,
        <<"U+1E91D", <<"U+1E93F">>>>, <<"U+1E91E", <<"U+1E940">>>>, <<"U+1E91F", <<"U+1E941">>>>, <<"U+1E920", <<"U+1E942">>>>,
        <<"U+1E921", <<"U+1E943">>>> }
  IN  [c \in { p[1] : p \in pairs } |-> (CHOOSE p \in pairs : p[1] = c)[2]]

\* The characters the final-sigma rule of str.lower() skips (Unicode
\* Case_Ignorable).
CaseIgnorable == {
    "'", ".", ":", "^", "U+0060", "U+00A8", "U+00AD", "U+00AF", "U+00B4", "U+00B7",
    "U+00B8", "U+02B0", "U+02B1", "U+02B2", "U+02B3", "U+02B4", "U+02B5", "U+02B6", "U+02B7", "U+02B8",
    "U+02B9", "U+02BA", "U+02BB", "U+02BC", "U+02BD", "U+02BE", "U+02BF", "U+02C0", "U+02C1", "U+02C2",
    "U+02C3", "U+02C4", "U+02C5", "U+02C6", "U+02C7", "U+02C8", "U+02C9", "U+02CA", "U+02CB", "U+02CC",
    "U+02CD", "U+02CE", "U+02CF", "U+02D0", "U+02D1", "U+02D2", "U+02D3", "U+02D4", "U+02D5", "U+02D6",
    "U+02D7", "U+02D8", "U+02D9", "U+02DA", "U+02DB", "U+02DC", "U+02DD", "U+02DE", "U+02DF", "U+02E0",
    "U+02E1", "U+02E2", "U+02E3", "U+02E4", "U+02E5", "U+02E6", "U+02E7", "U+02E8", "U+02E9", "U+02EA",
    "U+02EB", "U+02EC", "U+02ED", "U+02EE", "U+02EF", "U+02F0", "U+02F1", "U+02F2", "U+02F3", "U+02F4",
    "U+02F5", "U+02F6", "U+02F7", "U+02F8", "U+02F9", "U+02FA", "U+02FB", "U+02FC", "U+02FD", "U+02FE",
    "U+02FF", "U+0300", "U+0301", "U+0302", "U+0303", "U+0304", "U+0305", "U+0306", "U+0307", "U+0308",
    "U+0309", "U+030A", "U+030B", "U+030C", "U+030D", "U+030E", "U+030F", "U+0310", "U+0311", "U+0312",
    "U+0313", "U+0314", "U+0315", "U+0316", "U+0317", "U+0318", "U+0319", "U+031A", "U+031B", "U+031C",
    "U+031D", "U+031E", "U+031F", "U+0320", "U+0321", "U+0322", "U+0323", "U+0324", "U+0325", "U+0326",
    "U+0327", "U+0328", "U+0329", "U+032A", "U+032B", "U+032C", "U+032D", "U+032E", "U+032F", "U+0330",
    "U+0331", "U+0332", "U+0333", "U+0334", "U+0335", "U+0336", "U+0337", "U+0338", "U+0339", "U+033A",
    "U+033B", "U+033C", "U+033D", "U+033E", "U+033F", "U+0340", "U+0341", "U+0342", "U+0343", "U+0344",
    "U+0345", "U+0346", "U+0347", "U+0348", "U+0349", "U+034A", "U+034B", "U+034C", "U+034D", "U+034E",
    "U+034F", "U+0350", "U+0351", "U+0352", "U+0353", "U+0354", "U+0355", "U+0356", "U+0357", "U+0358",
    "U+0359", "U+035A", "U+035B", "U+035C", "U+035D", "U+035E", "U+035F", "U+0360", "U+0361", "U+0362",
    "U+0363", "U+0364", "U+0365", "U+0366", "U+0367", "U+0368", "U+0369", "U+036A", "U+036B", "U+036C",
    "U+036D", "U+036E", "U+036F", "U+0374", "U+0375", "U+037A", "U+0384", "U+0385", "U+0387", "U+0483",
    "U+0484", "U+0485", "U+0486", "U+0487", "U+0488", "U+0489", "U+0559", "U+055F", "U+0591", "U+0592",
    "U+0593", "U+0594", "U+0595", "U+0596", "U+0597", "U+0598", "U+0599", "U+059A", "U+059B", "U+059C",
    "U+059D", "U+059E", "U+059F", "U+05A0", "U+05A1", "U+05A2", "U+05A3", "U+05A4", "U+05A5", "U+05A6",
    "U+05A7", "U+05A8", "U+05A9", "U+05AA", "U+05AB", "U+05AC", "U+05AD", "U+05AE", "U+05AF", "U+05B0",
    "U+05B1", "U+05B2", "U+05B3", "U+05B4", "U+05B5", "U+05B6", "U+05B7", "U+05B8", "U+05B9", "U+05BA",
    "U+05BB", "U+05BC", "U+05BD", "U+05BF", "U+05C1", "U+05C2", "U+05C4", "U+05C5", "U+05C7", "U+05F4",
    "U+0600", "U+0601", "U+0602", "U+0603", "U+0604", "U+0605", "U+0610", "U+0611", "U+0612", "U+0613",
    "U+0614", "U+0615", "U+0616", "U+0617", "U+0618", "U+0619", "U+061A", "U+061C", "U+0640", "U+064B",
    "U+064C", "U+064D", "U+064E", "U+064F", "U+0650", "U+0651", "U+0652", "U+0653", "U+0654", "U+0655",
    "U+0656", "U+0657", "U+0658", "U+0659", "U+065A", "U+065B", "U+065C", "U+065D", "U+065E", "U+065F",
    "U+0670", "U+06D6", "U+06D7", "U+06D8", "U+06D9", "U+06DA", "U+06DB", "U+06DC", "U+06DD", "U+06DF",
    "U+06E0", "U+06E1", "U+06E2", "U+06E3", "U+06E4", "U+06E5", "U+06E6", "U+06E7", "U+06E8", "U+06EA",
    "U+06EB", "U+06EC", "U+06ED", "U+070F", "U+0711", "U+0730", "U+0731", "U+0732", "U+0733", "U+0734",
    "U+0735", "U+0736", "U+0737", "U+0738", "U+0739", "U+073A", "U+073B", "U+073C", "U+073D", "U+073E",
    "U+073F", "U+0740", "U+0741", "U+0742", "U+0743", "U+0744", "U+0745", "U+0746", "U+0747", "U+0748",
    "U+0749", "U+074A", "U+07A6", "U+07A7", "U+07A8", "U+07A9", "U+07AA", "U+07AB", "U+07AC", "U+07AD",
    "U+07AE", "U+07AF", "U+07B0", "U+07EB", "U+07EC", "U+07ED", "U+07EE", "U+07EF", "U+07F0", "U+07F1",
    "U+07F2", "U+07F3", "U+07F4", "U+07F5", "U+07FA", "U+07FD", "U+0816", "U+0817", "U+0818", "U+0819",
    "U+081A", "U+081B", "U+081C", "U+081D", "U+081E", "U+081F", "U+0820", "U+0821", "U+0822", "U+0823",
    "U+0824", "U+0825", "U+0826", "U+0827", "U+0828", "U+0829", "U+082A", "U+082B", "U+082C", "U+082D",
    "U+0859", "U+085A", "U+085B", "U+0888", "U+0890", "U+0891", "U+0898", "U+0899", "U+089A", "U+089B",
    "U+089C", "U+089D", "U+089E", "U+089F", "U+08C9", "U+08CA", "U+08CB", "U+08CC", "U+08CD", "U+08CE",
    "U+08CF", "U+08D0", "U+08D1", "U+08D2", "U+08D3", "U+08D4", "U+08D5", "U+08D6", "U+08D7", "U+08D8",
    "U+08D9", "U+08DA", "U+08DB", "U+08DC", "U+08DD", "U+08DE", "U+08DF", "U+08E0", "U+08E1", "U+08E2",
    "U+08E3", "U+08E4", "U+08E5", "U+08E6", "U+08E7", "U+08E8", "U+08E9", "U+08EA", "U+08EB", "U+08EC",
    "U+08ED", "U+08EE", "U+08EF", "U+08F0", "U+08F1", "U+08F2", "U+08F3", "U+08F4", "U+08F5", "U+08F6",
    "U+08F7", "U+08F8", "U+08F9", "U+08FA", "U+08FB", "U+08FC", "U+08FD", "U+08FE", "U+08FF", "U+0900",
    "U+0901", "U+0902", "U+093A", "U+093C", "U+0941", "U+0942", "U+0943", "U+0944", "U+0945", "U+0946",
    "U+0947", "U+0948", "U+094D", "U+0951", "U+0952", "U+0953", "U+0954", "U+0955", "U+0956", "U+0957",
    "U+0962", "U+0963", "U+0971", "U+0981", "U+09BC", "U+09C1", "U+09C2", "U+09C3", "U+09C4", "U+09CD",
    "U+09E2", "U+09E3", "U+09FE", "U+0A01", "U+0A02", "U+0A3C", "U+0A41", "U+0A42", "U+0A47", "U+0A48",
    "U+0A4B", "U+0A4C", "U+0A4D", "U+0A51", "U+0A70", "U+0A71", "U+0A75", "U+0A81", "U+0A82", "U+0ABC",
    "U+0AC1", "U+0AC2", "U+0AC3", "U+0AC4", "U+0AC5", "U+0AC7", "U+0AC8", "U+0ACD", "U+0AE2", "U+0AE3",
    "U+0AFA", "U+0AFB", "U+0AFC", "U+0AFD", "U+0AFE", "U+0AFF", "U+0B01", "U+0B3C", "U+0B3F", "U+0B41",
    "U+0B42", "U+0B43", "U+0B44", "U+0B4D", "U+0B55", "U+0B56", "U+0B62", "U+0B63", "U+0B82", "U+0BC0",
    "U+0BCD", "U+0C00", "U+0C04", "U+0C3C", "U+0C3E", "U+0C3F", "U+0C40", "U+0C46", "U+0C47", "U+0C48",
    "U+0C4A", "U+0C4B", "U+0C4C", "U+0C4D", "U+0C55", "U+0C56", "U+0C62", "U+0C63", "U+0C81", "U+0CBC",
    "U+0CBF", "U+0CC6", "U+0CCC", "U+0CCD", "U+0CE2", "U+0CE3", "U+0D00", "U+0D01", "U+0D3B", "U+0D3C",
    "U+0D41", "U+0D42", "U+0D43", "U+0D44", "U+0D4D", "U+0D62", "U+0D63", "U+0D81", "U+0DCA", "U+0DD2",
    "U+0DD3", "U+0DD4", "U+0DD6", "U+0E31", "U+0E34", "U+0E35", "U+0E36", "U+0E37", "U+0E38", "U+0E39",
    "U+0E3A", "U+0E46", "U+0E47", "U+0E48", "U+0E49", "U+0E4A", "U+0E4B", "U+0E4C", "U+0E4D", "U+0E4E",
    "U+0EB1", "U+0EB4", "U+0EB5", "U+0EB6", "U+0EB7", "U+0EB8", "U+0EB9", "U+0EBA", "U+0EBB", "U+0EBC",
    "U+0EC6", "U+0EC8", "U+0EC9", "U+0ECA", "U+0ECB", "U+0ECC", "U+0ECD", "U+0F18", "U+0F19", "U+0F35",
    "U+0F37", "U+0F39", "U+0F71", "U+0F72", "U+0F73", "U+0F74", "U+0F75", "U+0F76", "U+0F77", "U+0F78",
    "U+0F79", "U+0F7A", "U+0F7B", "U+0F7C", "U+0F7D", "U+0F7E", "U+0F80", "U+0F81", "U+0F82", "U+0F83",
    "U+0F84", "U+0F86", "U+0F87", "U+0F8D", "U+0F8E", "U+0F8F", "U+0F90", "U+0F91", "U+0F92", "U+0F93",
    "U+0F94", "U+0F95", "U+0F96", "U+0F97", "U+0F99", "U+0F9A", "U+0F9B", "U+0F9C", "U+0F9D", "U+0F9E",
    "U+0F9F", "U+0FA0", "U+0FA1", "U+0FA2", "U+0FA3", "U+0FA4", "U+0FA5", "U+0FA6", "U+0FA7", "U+0FA8",
    "U+0FA9", "U+0FAA", "U+0FAB", "U+0FAC", "U+0FAD", "U+0FAE", "U+0FAF", "U+0FB0", "U+0FB1", "U+0FB2",
    "U+0FB3", "U+0FB4", "U+0FB5", "U+0FB6", "U+0FB7", "U+0FB8", "U+0FB9", "U+0FBA", "U+0FBB", "U+0FBC",
    "U+0FC6", "U+102D", "U+102E", "U+102F", "U+1030", "U+1032", "U+1033", "U+1034", "U+1035", "U+1036",
    "U+1037", "U+1039", "U+103A", "U+103D", "U+103E", "U+1058", "U+1059", "U+105E", "U+105F", "U+1060",
    "U+1071", "U+1072", "U+1073", "U+1074", "U+1082", "U+1085", "U+1086", "U+108D", "U+109D", "U+10FC",
    "U+135D", "U+135E", "U+135F", "U+1712", "U+1713", "U+1714", "U+1732", "U+1733", "U+1752", "U+1753",
    "U+1772", "U+1773", "U+17B4", "U+17B5", "U+17B7", "U+17B8", "U+17B9", "U+17BA", "U+17BB", "U+17BC",
    "U+17BD", "U+17C6", "U+17C9", "U+17CA", "U+17CB", "U+17CC", "U+17CD", "U+17CE", "U+17CF", "U+17D0",
    "U+17D1", "U+17D2", "U+17D3", "U+17D7", "U+17DD", "U+180B", "U+180C", "U+180D", "U+180E", "U+180F",
    "U+1843", "U+1885", "U+1886", "U+18A9", "U+1920", "U+1921", "U+1922", "U+1927", "U+1928", "U+1932",
    "U+1939", "U+193A", "U+193B", "U+1A17", "U+1A18", "U+1A1B", "U+1A56", "U+1A58", "U+1A59", "U+1A5A",
    "U+1A5B", "U+1A5C", "U+1A5D", "U+1A5E", "U+1A60", "U+1A62", "U+1A65", "U+1A66", "U+1A67", "U+1A68",
    "U+1A69", "U+1A6A", "U+1A6B", "U+1A6C", "U+1A73", "U+1A74", "U+1A75", "U+1A76", "U+1A77", "U+1A78",
    "U+1A79", "U+1A7A", "U+1A7B", "U+1A7C", "U+1A7F", "U+1AA7", "U+1AB0", "U+1AB1", "U+1AB2", "U+1AB3",
    "U+1AB4", "U+1AB5", "U+1AB6", "U+1AB7", "U+1AB8", "U+1AB9", "U+1ABA", "U+1ABB", "U+1ABC", "U+1ABD",
    "U+1ABE", "U+1ABF", "U+1AC0", "U+1AC1", "U+1AC2", "U+1AC3", "U+1AC4", "U+1AC5", "U+1AC6", "U+1AC7",
    "U+1AC8", "U+1AC9", "U+1ACA", "U+1ACB", "U+1ACC", "U+1ACD", "U+1ACE", "U+1B00", "U+1B01", "U+1B02",
    "U+1B03", "U+1B34", "U+1B36", "U+1B37", "U+1B38", "U+1B39", "U+1B3A", "U+1B3C", "U+1B42", "U+1B6B",
    "U+1B6C", "U+1B6D", "U+1B6E", "U+1B6F", "U+1B70", "U+1B71", "U+1B72", "U+1B73", "U+1B80", "U+1B81",
    "U+1BA2", "U+1BA3", "U+1BA4", "U+1BA5", "U+1BA8", "U+1BA9", "U+1BAB", "U+1BAC", "U+1BAD", "U+1BE6",
    "U+1BE8", "U+1BE9", "U+1BED", "U+1BEF", "U+1BF0", "U+1BF1", "U+1C2C", "U+1C2D", "U+1C2E", "U+1C2F",
    "U+1C30", "U+1C31", "U+1C32", "U+1C33", "U+1C36", "U+1C37", "U+1C78", "U+1C79", "U+1C7A", "U+1C7B",
    "U+1C7C", "U+1C7D", "U+1CD0", "U+1CD1", "U+1CD2", "U+1CD4", "U+1CD5", "U+1CD6", "U+1CD7", "U+1CD8",
    "U+1CD9", "U+1CDA", "U+1CDB", "U+1CDC", "U+1CDD", "U+1CDE", "U+1CDF", "U+1CE0", "U+1CE2", "U+1CE3",
    "U+1CE4", "U+1CE5", "U+1CE6", "U+1CE7", "U+1CE8", "U+1CED", "U+1CF4", "U+1CF8", "U+1CF9", "U+1D2C",
    "U+1D2D", "U+1D2E", "U+1D2F", "U+1D30", "U+1D31", "U+1D32", "U+1D33", "U+1D34", "U+1D35", "U+1D36",
    "U+1D37", "U+1D38", "U+1D39", "U+1D3A", "U+1D3B", "U+1D3C", "U+1D3D", "U+1D3E", "U+1D3F", "U+1D40",
    "U+1D41", "U+1D42", "U+1D43", "U+1D44", "U+1D45", "U+1D46", "U+1D47", "U+1D48", "U+1D49", "U+1D4A",
    "U+1D4B", "U+1D4C", "U+1D4D", "U+1D4E", "U+1D4F", "U+1D50", "U+1D51", "U+1D52", "U+1D53", "U+1D54",
    "U+1D55", "U+1D56", "U+1D57", "U+1D58", "U+1D59", "U+1D5A", "U+1D5B", "U+1D5C", "U+1D5D", "U+1D5E",
    "U+1D5F", "U+1D60", "U+1D61", "U+1D62", "U+1D63", "U+1D64", "U+1D65", "U+1D66", "U+1D67", "U+1D68",
    "U+1D69", "U+1D6A", "U+1D78", "U+1D9B", "U+1D9C", "U+1D9D", "U+1D9E", "U+1D9F", "U+1DA0", "U+1DA1",
    "U+1DA2", "U+1DA3", "U+1DA4", "U+1DA5", "U+1DA6", "U+1DA7", "U+1DA8", "U+1DA9", "U+1DAA", "U+1DAB",
    "U+1DAC", "U+1DAD", "U+1DAE", "U+1DAF", "U+1DB0", "U+1DB1", "U+1DB2", "U+1DB3", "U+1DB4", "U+1DB5",
    "U+1DB6", "U+1DB7", "U+1DB8", "U+1DB9", "U+1DBA", "U+1DBB", "U+1DBC", "U+1DBD", "U+1DBE", "U+1DBF",
    "U+1DC0", "U+1DC1", "U+1DC2", "U+1DC3", "U+1DC4", "U+1DC5", "U+1DC6", "U+1DC7", "U+1DC8", "U+1DC9",
    "U+1DCA", "U+1DCB", "U+1DCC", "U+1DCD", "U+1DCE", "U+1DCF", "U+1DD0", "U+1DD1", "U+1DD2", "U+1DD3",
    "U+1DD4", "U+1DD5", "U+1DD6", "U+1DD7", "U+1DD8", "U+1DD9", "U+1DDA", "U+1DDB", "U+1DDC", "U+1DDD",
    "U+1DDE", "U+1DDF", "U+1DE0", "U+1DE1", "U+1DE2", "U+1DE3", "U+1DE4", "U+1DE5", "U+1DE6", "U+1DE7",
    "U+1DE8", "U+1DE9", "U+1DEA", "U+1DEB", "U+1DEC", "U+1DED", "U+1DEE", "U+1DEF", "U+1DF0", "U+1DF1",
    "U+1DF2", "U+1DF3", "U+1DF4", "U+1DF5", "U+1DF6", "U+1DF7", "U+1DF8", "U+1DF9", "U+1DFA", "U+1DFB",
    "U+1DFC", "U+1DFD", "U+1DFE", "U+1DFF", "U+1FBD", "U+1FBF", "U+1FC0", "U+1FC1", "U+1FCD", "U+1FCE",
    "U+1FCF", "U+1FDD", "U+1FDE", "U+1FDF", "U+1FED", "U+1FEE", "U+1FEF", "U+1FFD", "U+1FFE", "U+200B",
    "U+200C", "U+200D", "U+200E", "U+200F", "U+2018", "U+2019", "U+2024", "U+2027", "U+202A", "U+202B",
    "U+202C", "U+202D", "U+202E", "U+2060", "U+2061", "U+2062", "U+2063", "U+2064", "U+2066", "U+2067",
    "U+2068", "U+2069", "U+206A", "U+206B", "U+206C", "U+206D", "U+206E", "U+206F", "U+2071", "U+207F",
    "U+2090", "U+2091", "U+2092", "U+2093", "U+2094", "U+2095", "U+2096", "U+2097", "U+2098", "U+2099",
    "U+209A", "U+209B", "U+209C", "U+20D0", "U+20D1", "U+20D2", "U+20D3", "U+20D4", "U+20D5", "U+20D6",
    "U+20D7", "U+20D8", "U+20D9", "U+20DA", "U+20DB", "U+20DC", "U+20DD", "U+20DE", "U+20DF", "U+20E0",
    "U+20E1", "U+20E2", "U+20E3", "U+20E4", "U+20E5", "U+20E6", "U+20E7", "U+20E8", "U+20E9", "U+20EA",
    "U+20EB", "U+20EC", "U+20ED", "U+20EE", "U+20EF", "U+20F0", "U+2C7C", "U+2C7D", "U+2CEF", "U+2CF0",
    "U+2CF1", "U+2D6F", "U+2D7F", "U+2DE0", "U+2DE1", "U+2DE2", "U+2DE3", "U+2DE4", "U+2DE5", "U+2DE6",
    "U+2DE7", "U+2DE8", "U+2DE9", "U+2DEA", "U+2DEB", "U+2DEC", "U+2DED", "U+2DEE", "U+2DEF", "U+2DF0",
    "U+2DF1", "U+2DF2", "U+2DF3", "U+2DF4", "U+2DF5", "U+2DF6", "U+2DF7", "U+2DF8", "U+2DF9", "U+2DFA",
    "U+2DFB", "U+2DFC", "U+2DFD", "U+2DFE", "U+2DFF", "U+2E2F", "U+3005", "U+302A", "U+302B", "U+302C",
    "U+302D", "U+3031", "U+3032", "U+3033", "U+3034", "U+3035", "U+303B", "U+3099", "U+309A", "U+309B",
    "U+309C", "U+309D", "U+309E", "U+30FC", "U+30FD", "U+30FE", "U+A015", "U+A4F8", "U+A4F9", "U+A4FA",
    "U+A4FB", "U+A4FC", "U+A4FD", "U+A60C", "U+A66F", "U+A670", "U+A671", "U+A672", "U+A674", "U+A675",
    "U+A676", "U+A677", "U+A678", "U+A679", "U+A67A", "U+A67B", "U+A67C", "U+A67D", "U+A67F", "U+A69C",
    "U+A69D", "U+A69E", "U+A69F", "U+A6F0", "U+A6F1", "U+A700", "U+A701", "U+A702", "U+A703", "U+A704",
    "U+A705", "U+A706", "U+A707", "U+A708", "U+A709", "U+A70A", "U+A70B", "U+A70C", "U+A70D", "U+A70E",
    "U+A70F", "U+A710", "U+A711", "U+A712", "U+A713", "U+A714", "U+A715", "U+A716", "U+A717", "U+A718",
    "U+A719", "U+A71A", "U+A71B", "U+A71C", "U+A71D", "U+A71E", "U+A71F", "U+A720", "U+A721", "U+A770",
    "U+A788", "U+A789", "U+A78A", "U+A7F2", "U+A7F3", "U+A7F4", "U+A7F8", "U+A7F9", "U+A802", "U+A806",
    "U+A80B", "U+A825", "U+A826", "U+A82C", "U+A8C4", "U+A8C5", "U+A8E0", "U+A8E1", "U+A8E2", "U+A8E3",
    "U+A8E4", "U+A8E5", "U+A8E6", "U+A8E7", "U+A8E8", "U+A8E9", "U+A8EA", "U+A8EB", "U+A8EC", "U+A8ED",
    "U+A8EE", "U+A8EF", "U+A8F0", "U+A8F1", "U+A8FF", "U+A926", "U+A927", "U+A928", "U+A929", "U+A92A",
    "U+A92B", "U+A92C", "U+A92D", "U+A947", "U+A948", "U+A949", "U+A94A", "U+A94B", "U+A94C", "U+A94D",
    "U+A94E", "U+A94F", "U+A950", "U+A951", "U+A980", "U+A981", "U+A982", "U+A9B3", "U+A9B6", "U+A9B7",
    "U+A9B8", "U+A9B9", "U+A9BC", "U+A9BD", "U+A9CF", "U+A9E5", "U+A9E6", "U+AA29", "U+AA2A", "U+AA2B",
    "U+AA2C", "U+AA2D", "U+AA2E", "U+AA31", "U+AA32", "U+AA35", "U+AA36", "U+AA43", "U+AA4C", "U+AA70",
    "U+AA7C", "U+AAB0", "U+AAB2", "U+AAB3", "U+AAB4", "U+AAB7", "U+AAB8", "U+AABE", "U+AABF", "U+AAC1",
    "U+AADD", "U+AAEC", "U+AAED", "U+AAF3", "U+AAF4", "U+AAF6", "U+AB5B", "U+AB5C", "U+AB5D", "U+AB5E",
    "U+AB5F", "U+AB69", "U+AB6A", "U+AB6B", "U+ABE5", "U+ABE8", "U+ABED", "U+FB1E", "U+FBB2", "U+FBB3",
    "U+FBB4", "U+FBB5", "U+FBB6", "U+FBB7", "U+FBB8", "U+FBB9", "U+FBBA", "U+FBBB", "U+FBBC", "U+FBBD",
    "U+FBBE", "U+FBBF", "U+FBC0", "U+FBC1", "U+FBC2", "U+FE00", "U+FE01", "U+FE02", "U+FE03", "U+FE04",
    "U+FE05", "U+FE06", "U+FE07", "U+FE08", "U+FE09", "U+FE0A", "U+FE0B", "U+FE0C", "U+FE0D", "U+FE0E",
    "U+FE0F", "U+FE13", "U+FE20", "U+FE21", "U+FE22", "U+FE23", "U+FE24", "U+FE25", "U+FE26", "U+FE27",
    "U+FE28", "U+FE29", "U+FE2A", "U+FE2B", "U+FE2C", "U+FE2D", "U+FE2E", "U+FE2F", "U+FE52", "U+FE55",
    "U+FEFF", "U+FF07", "U+FF0E", "U+FF1A", "U+FF3E", "U+FF40", "U+FF70", "U+FF9E", "U+FF9F", "U+FFE3",
    "U+FFF9", "U+FFFA", "U+FFFB", "U+101FD", "U+102E0", "U+10376", "U+10377", "U+10378", "U+10379", "U+1037A",
    "U+10780", "U+10781", "U+10782", "U+10783", "U+10784", "U+10785", "U+10787", "U+10788", "U+10789", "U+1078A",
    "U+1078B", "U+1078C", "U+1078D", "U+1078E", "U+1078F", "U+10790", "U+10791", "U+10792", "U+10793", "U+10794",
    "U+10795", "U+10796", "U+10797", "U+10798", "U+10799", "U+1079A", "U+1079B", "U+1079C", "U+1079D", "U+1079E",
    "U+1079F", "U+107A0", "U+107A1", "U+107A2", "U+107A3", "U+107A4", "U+107A5", "U+107A6", "U+107A7", "U+107A8",
    "U+107A9", "U+107AA", "U+107AB", "U+107AC", "U+107AD", "U+107AE", "U+107AF", "U+107B0", "U+107B2", "U+107B3",
    "U+107B4", "U+107B5", "U+107B6", "U+107B7", "U+107B8", "U+107B9", "U+107BA", "U+10A01", "U+10A02", "U+10A03",
    "U+10A05", "U+10A06", "U+10A0C", "U+10A0D", "U+10A0E", "U+10A0F", "U+10A38", "U+10A39", "U+10A3A", "U+10A3F",
    "U+10AE5", "U+10AE6", "U+10D24", "U+10D25", "U+10D26", "U+10D27", "U+10EAB", "U+10EAC", "U+10F46", "U+10F47",
    "U+10F48", "U+10F49", "U+10F4A", "U+10F4B", "U+10F4C", "U+10F4D", "U+10F4E", "U+10F4F", "U+10F50", "U+10F82",
    "U+10F83", "U+10F84", "U+10F85", "U+11001", "U+11038", "U+11039", "U+1103A", "U+1103B", "U+1103C", "U+1103D",
    "U+1103E", "U+1103F", "U+11040", "U+11041", "U+11042", "U+11043", "U+11044", "U+11045", "U+11046", "U+11070",
    "U+11073", "U+11074", "U+1107F", "U+11080", "U+11081", "U+110B3", "U+110B4", "U+110B5", "U+110B6", "U+110B9",
    "U+110BA", "U+110BD", "U+110C2", "U+110CD", "U+11100", "U+11101", "U+11102", "U+11127", "U+11128", "U+11129",
    "U+1112A", "U+1112B", "U+1112D", "U+1112E", "U+1112F", "U+11130", "U+11131", "U+11132", "U+11133", "U+11134",
    "U+11173", "U+11180", "U+11181", "U+111B6", "U+111B7", "U+111B8", "U+111B9", "U+111BA", "U+111BB", "U+111BC",
    "U+111BD", "U+111BE", "U+111C9", "U+111CA", "U+111CB", "U+111CC", "U+111CF", "U+1122F", "U+11230", "U+11231",
    "U+11234", "U+11236", "U+11237", "U+1123E", "U+112DF", "U+112E3", "U+112E4", "U+112E5", "U+112E6", "U+112E7",
    "U+112E8", "U+112E9", "U+112EA", "U+11300", "U+11301", "U+1133B", "U+1133C", "U+11340", "U+11366", "U+11367",
    "U+11368", "U+11369", "U+1136A", "U+1136B", "U+1136C", "U+11370", "U+11371", "U+11372", "U+11373", "U+11374",
    "U+11438", "U+11439", "U+1143A", "U+1143B", "U+1143C", "U+1143D", "U+1143E", "U+1143F", "U+11442", "U+11443",
    "U+11444", "U+11446", "U+1145E", "U+114B3", "U+114B4", "U+114B5", "U+114B6", "U+114B7", "U+114B8", "U+114BA",
    "U+114BF", "U+114C0", "U+114C2", "U+114C3", "U+115B2", "U+115B3", "U+115B4", "U+115B5", "U+115BC", "U+115BD",
    "U+115BF", "U+115C0", "U+115DC", "U+115DD", "U+11633", "U+11634", "U+11635", "U+11636", "U+11637", "U+11638",
    "U+11639", "U+1163A", "U+1163D", "U+1163F", "U+11640", "U+116AB", "U+116AD", "U+116B0", "U+116B1", "U+116B2",
    "U+116B3", "U+116B4", "U+116B5", "U+116B7", "U+1171D", "U+1171E", "U+1171F", "U+11722", "U+11723", "U+11724",
    "U+11725", "U+11727", "U+11728", "U+11729", "U+1172A", "U+1172B", "U+1182F", "U+11830", "U+11831", "U+11832",
    "U+11833", "U+11834", "U+11835", "U+11836", "U+11837", "U+11839", "U+1183A", "U+1193B", "U+1193C", "U+1193E",
    "U+11943", "U+119D4", "U+119D5", "U+119D6", "U+119D7", "U+119DA", "U+119DB", "U+119E0", "U+11A01", "U+11A02",
    "U+11A03", "U+11A04", "U+11A05", "U+11A06", "U+11A07", "U+11A08", "U+11A09", "U+11A0A", "U+11A33", "U+11A34",
    "U+11A35", "U+11A36", "U+11A37", "U+11A38", "U+11A3B", "U+11A3C", "U+11A3D", "U+11A3E", "U+11A47", "U+11A51",
    "U+11A52", "U+11A53", "U+11A54", "U+11A55", "U+11A56", "U+11A59", "U+11A5A", "U+11A5B", "U+11A8A", "U+11A8B",
    "U+11A8C", "U+11A8D", "U+11A8E", "U+11A8F", "U+11A90", "U+11A91", "U+11A92", "U+11A93", "U+11A94", "U+11A95",
    "U+11A96", "U+11A98", "U+11A99", "U+11C30", "U+11C31", "U+11C32", "U+11C33", "U+11C34", "U+11C35", "U+11C36",
    "U+11C38", "U+11C39", "U+11C3A", "U+11C3B", "U+11C3C", "U+11C3D", "U+11C3F", "U+11C92", "U+11C93", "U+11C94",
    "U+11C95", "U+11C96", "U+11C97", "U+11C98", "U+11C99", "U+11C9A", "U+11C9B", "U+11C9C", "U+11C9D", "U+11C9E",
    "U+11C9F", "U+11CA0", "U+11CA1", "U+11CA2", "U+11CA3", "U+11CA4", "U+11CA5", "U+11CA6", "U+11CA7", "U+11CAA",
    "U+11CAB", "U+11CAC", "U+11CAD", "U+11CAE", "U+11CAF", "U+11CB0", "U+11CB2", "U+11CB3", "U+11CB5", "U+11CB6",
    "U+11D31", "U+11D32", "U+11D33", "U+11D34", "U+11D35", "U+11D36", "U+11D3A", "U+11D3C", "U+11D3D", "U+11D3F",
    "U+11D40", "U+11D41", "U+11D42", "U+11D43", "U+11D44", "U+11D45", "U+11D47", "U+11D90", "U+11D91", "U+11D95",
    "U+11D97", "U+11EF3", "U+11EF4", "U+13430", "U+13431", "U+13432", "U+13433", "U+13434", "U+13435", "U+13436",
    "U+13437", "U+13438", "U+16AF0", "U+16AF1", "U+16AF2", "U+16AF3", "U+16AF4", "U+16B30", "U+16B31", "U+16B32",
    "U+16B33", "U+16B34", "U+16B35", "U+16B36", "U+16B40", "U+16B41", "U+16B42", "U+16B43", "U+16F4F", "U+16F8F",
    "U+16F90", "U+16F91", "U+16F92", "U+16F93", "U+16F94", "U+16F95", "U+16F96", "U+16F97", "U+16F98", "U+16F99",
    "U+16F9A", "U+16F9B", "U+16F9C", "U+16F9D", "U+16F9E", "U+16F9F", "U+16FE0", "U+16FE1", "U+16FE3", "U+16FE4",
    "U+1AFF0", "U+1AFF1", "U+1AFF2", "U+1AFF3", "U+1AFF5", "U+1AFF6", "U+1AFF7", "U+1AFF8", "U+1AFF9", "U+1AFFA",
    "U+1AFFB", "U+1AFFD", "U+1AFFE", "U+1BC9D", "U+1BC9E", "U+1BCA0", "U+1BCA1", "U+1BCA2", "U+1BCA3", "U+1CF00",
    "U+1CF01", "U+1CF02", "U+1CF03", "U+1CF04", "U+1CF05", "U+1CF06", "U+1CF07", "U+1CF08", "U+1CF09", "U+1CF0A",
    "U+1CF0B", "U+1CF0C", "U+1CF0D", "U+1CF0E", "U+1CF0F", "U+1CF10", "U+1CF11", "U+1CF12", "U+1CF13", "U+1CF14",
    "U+1CF15", "U+1CF16", "U+1CF17", "U+1CF18", "U+1CF19", "U+1CF1A", "U+1CF1B", "U+1CF1C", "U+1CF1D", "U+1CF1E",
    "U+1CF1F", "U+1CF20", "U+1CF21", "U+1CF22", "U+1CF23", "U+1CF24", "U+1CF25", "U+1CF26", "U+1CF27", "U+1CF28",
    "U+1CF29", "U+1CF2A", "U+1CF2B", "U+1CF2C", "U+1CF2D", "U+1CF30", "U+1CF31", "U+1CF32", "U+1CF33", "U+1CF34",
    "U+1CF35", "U+1CF36", "U+1CF37", "U+1CF38", "U+1CF39", "U+1CF3A", "U+1CF3B", "U+1CF3C", "U+1CF3D", "U+1CF3E",
    "U+1CF3F", "U+1CF40", "U+1CF41", "U+1CF42", "U+1CF43", "U+1CF44", "U+1CF45", "U+1CF46", "U+1D167", "U+1D168",
    "U+1D169", "U+1D173", "U+1D174", "U+1D175", "U+1D176", "U+1D177", "U+1D178", "U+1D179", "U+1D17A", "U+1D17B",
    "U+1D17C", "U+1D17D", "U+1D17E", "U+1D17F", "U+1D180", "U+1D181", "U+1D182", "U+1D185", "U+1D186", "U+1D187",
    "U+1D188", "U+1D189", "U+1D18A", "U+1D18B", "U+1D1AA", "U+1D1AB", "U+1D1AC", "U+1D1AD", "U+1D242", "U+1D243",
    "U+1D244", "U+1DA00", "U+1DA01", "U+1DA02", "U+1DA03", "U+1DA04", "U+1DA05", "U+1DA06", "U+1DA07", "U+1DA08",
    "U+1DA09", "U+1DA0A", "U+1DA0B", "U+1DA0C", "U+1DA0D", "U+1DA0E", "U+1DA0F", "U+1DA10", "U+1DA11", "U+1DA12",
    "U+1DA13", "U+1DA14", "U+1DA15", "U+1DA16", "U+1DA17", "U+1DA18", "U+1DA19", "U+1DA1A", "U+1DA1B", "U+1DA1C",
    "U+1DA1D", "U+1DA1E", "U+1DA1F", "U+1DA20", "U+1DA21", "U+1DA22", "U+1DA23", "U+1DA24", "U+1DA25", "U+1DA26",
    "U+1DA27", "U+1DA28", "U+1DA29", "U+1DA2A", "U+1DA2B", "U+1DA2C", "U+1DA2D", "U+1DA2E", "U+1DA2F", "U+1DA30",
    "U+1DA31", "U+1DA32", "U+1DA33", "U+1DA34", "U+1DA35", "U+1DA36", "U+1DA3B", "U+1DA3C", "U+1DA3D", "U+1DA3E",
    "U+1DA3F", "U+1DA40", "U+1DA41", "U+1DA42", "U+1DA43", "U+1DA44", "U+1DA45", "U+1DA46", "U+1DA47", "U+1DA48",
    "U+1DA49", "U+1DA4A", "U+1DA4B", "U+1DA4C", "U+1DA4D", "U+1DA4E", "U+1DA4F", "U+1DA50", "U+1DA51", "U+1DA52",
    "U+1DA53", "U+1DA54", "U+1DA55", "U+1DA56", "U+1DA57", "U+1DA58", "U+1DA59", "U+1DA5A", "U+1DA5B", "U+1DA5C",
    "U+1DA5D", "U+1DA5E", "U+1DA5F", "U+1DA60", "U+1DA61", "U+1DA62", "U+1DA63", "U+1DA64", "U+1DA65", "U+1DA66",
    "U+1DA67", "U+1DA68", "U+1DA69", "U+1DA6A", "U+1DA6B", "U+1DA6C", "U+1DA75", "U+1DA84", "U+1DA9B", "U+1DA9C",
    "U+1DA9D", "U+1DA9E", "U+1DA9F", "U+1DAA1", "U+1DAA2", "U+1DAA3", "U+1DAA4", "U+1DAA5", "U+1DAA6", "U+1DAA7",
    "U+1DAA8", "U+1DAA9", "U+1DAAA", "U+1DAAB", "U+1DAAC", "U+1DAAD", "U+1DAAE", "U+1DAAF", "U+1E000", "U+1E001",
    "U+1E002", "U+1E003", "U+1E004", "U+1E005", "U+1E006", "U+1E008", "U+1E009", "U+1E00A", "U+1E00B", "U+1E00C",
    "U+1E00D", "U+1E00E", "U+1E00F", "U+1E010", "U+1E011", "U+1E012", "U+1E013", "U+1E014", "U+1E015", "U+1E016",
    "U+1E017", "U+1E018", "U+1E01B", "U+1E01C", "U+1E01D", "U+1E01E", "U+1E01F", "U+1E020", "U+1E021", "U+1E023",
    "U+1E024", "U+1E026", "U+1E027", "U+1E028", "U+1E029", "U+1E02A", "U+1E130", "U+1E131", "U+1E132", "U+1E133",
    "U+1E134", "U+1E135", "U+1E136", "U+1E137", "U+1E138", "U+1E139", "U+1E13A", "U+1E13B", "U+1E13C", "U+1E13D",
    "U+1E2AE", "U+1E2EC", "U+1E2ED", "U+1E2EE", "U+1E2EF", "U+1E8D0", "U+1E8D1", "U+1E8D2", "U+1E8D3", "U+1E8D4",
    "U+1E8D5", "U+1E8D6", "U+1E944", "U+1E945", "U+1E946", "U+1E947", "U+1E948", "U+1E949", "U+1E94A", "U+1E94B",
    "U+1F3FB", "U+1F3FC", "U+1F3FD", "U+1F3FE", "U+1F3FF", "U+E0001", "U+E0020", "U+E0021", "U+E0022", "U+E0023",
    "U+E0024", "U+E0025", "U+E0026", "U+E0027", "U+E0028", "U+E0029", "U+E002A", "U+E002B", "U+E002C", "U+E002D",
    "U+E002E", "U+E002F", "U+E0030", "U+E0031", "U+E0032", "U+E0033", "U+E0034", "U+E0035", "U+E0036", "U+E0037",
    "U+E0038", "U+E0039", "U+E003A", "U+E003B", "U+E003C", "U+E003D", "U+E003E", "U+E003F", "U+E0040", "U+E0041",
    "U+E0042", "U+E0043", "U+E0044", "U+E0045", "U+E0046", "U+E0047", "U+E0048", "U+E0049", "U+E004A", "U+E004B",
    "U+E004C", "U+E004D", "U+E004E", "U+E004F", "U+E0050", "U+E0051", "U+E0052", "U+E0053", "U+E0054", "U+E0055",
    "U+E0056", "U+E0057", "U+E0058", "U+E0059", "U+E005A", "U+E005B", "U+E005C", "U+E005D", "U+E005E", "U+E005F",
    "U+E0060", "U+E0061", "U+E0062", "U+E0063", "U+E0064", "U+E0065", "U+E0066", "U+E0067", "U+E0068", "U+E0069",
    "U+E006A", "U+E006B", "U+E006C", "U+E006D", "U+E006E", "U+E006F", "U+E0070", "U+E0071", "U+E0072", "U+E0073",
    "U+E0074", "U+E0075", "U+E0076", "U+E0077", "U+E0078", "U+E0079", "U+E007A", "U+E007B", "U+E007C", "U+E007D",
    "U+E007E", "U+E007F", "U+E0100", "U+E0101", "U+E0102", "U+E0103", "U+E0104", "U+E0105", "U+E0106", "U+E0107",
    "U+E0108", "U+E0109", "U+E010A", "U+E010B", "U+E010C", "U+E010D", "U+E010E", "U+E010F", "U+E0110", "U+E0111",
    "U+E0112", "U+E0113", "U+E0114", "U+E0115", "U+E0116", "U+E0117", "U+E0118", "U+E0119", "U+E011A", "U+E011B",
    "U+E011C", "U+E011D", "U+E011E", "U+E011F", "U+E0120", "U+E0121", "U+E0122", "U+E0123", "U+E0124", "U+E0125",
    "U+E0126", "U+E0127", "U+E0128", "U+E0129", "U+E012A", "U+E012B", "U+E012C", "U+E012D", "U+E012E", "U+E012F",
    "U+E0130", "U+E0131", "U+E0132", "U+E0133", "U+E0134", "U+E0135", "U+E0136", "U+E0137", "U+E0138", "U+E0139",
    "U+E013A", "U+E013B", "U+E013C", "U+E013D", "U+E013E", "U+E013F", "U+E0140", "U+E0141", "U+E0142", "U+E0143",
    "U+E0144", "U+E0145", "U+E0146", "U+E0147", "U+E0148", "U+E0149", "U+E014A", "U+E014B", "U+E014C", "U+E014D",
    "U+E014E", "U+E014F", "U+E0150", "U+E0151", "U+E0152", "U+E0153", "U+E0154", "U+E0155", "U+E0156", "U+E0157",
    "U+E0158", "U+E0159", "U+E015A", "U+E015B", "U+E015C", "U+E015D", "U+E015E", "U+E015F", "U+E0160", "U+E0161",
    "U+E0162", "U+E0163", "U+E0164", "U+E0165", "U+E0166", "U+E0167", "U+E0168", "U+E0169", "U+E016A", "U+E016B",
    "U+E016C", "U+E016D", "U+E016E", "U+E016F", "U+E0170", "U+E0171", "U+E0172", "U+E0173", "U+E0174", "U+E0175",
    "U+E0176", "U+E0177", "U+E0178", "U+E0179", "U+E017A", "U+E017B", "U+E017C", "U+E017D", "U+E017E", "U+E017F",
    "U+E0180", "U+E0181", "U+E0182", "U+E0183", "U+E0184", "U+E0185", "U+E0186", "U+E0187", "U+E0188", "U+E0189",
    "U+E018A", "U+E018B", "U+E018C", "U+E018D", "U+E018E", "U+E018F", "U+E0190", "U+E0191", "U+E0192", "U+E0193",
    "U+E0194", "U+E0195", "U+E0196", "U+E0197", "U+E0198", "U+E0199", "U+E019A", "U+E019B", "U+E019C", "U+E019D",
    "U+E019E", "U+E019F", "U+E01A0", "U+E01A1", "U+E01A2", "U+E01A3", "U+E01A4", "U+E01A5", "U+E01A6", "U+E01A7",
    "U+E01A8", "U+E01A9", "U+E01AA", "U+E01AB", "U+E01AC", "U+E01AD", "U+E01AE", "U+E01AF", "U+E01B0", "U+E01B1",
    "U+E01B2", "U+E01B3", "U+E01B4", "U+E01B5", "U+E01B6", "U+E01B7", "U+E01B8", "U+E01B9", "U+E01BA", "U+E01BB",
    "U+E01BC", "U+E01BD", "U+E01BE", "U+E01BF", "U+E01C0", "U+E01C1", "U+E01C2", "U+E01C3", "U+E01C4", "U+E01C5",
    "U+E01C6", "U+E01C7", "U+E01C8", "U+E01C9", "U+E01CA", "U+E01CB", "U+E01CC", "U+E01CD", "U+E01CE", "U+E01CF",
    "U+E01D0", "U+E01D1", "U+E01D2", "U+E01D3", "U+E01D4", "U+E01D5", "U+E01D6", "U+E01D7", "U+E01D8", "U+E01D9",
    "U+E01DA", "U+E01DB", "U+E01DC", "U+E01DD", "U+E01DE", "U+E01DF", "U+E01E0", "U+E01E1", "U+E01E2", "U+E01E3",
    "U+E01E4", "U+E01E5", "U+E01E6", "U+E01E7", "U+E01E8", "U+E01E9", "U+E01EA", "U+E01EB", "U+E01EC", "U+E01ED",
    "U+E01EE", "U+E01EF" }

\* The cased characters (Unicode Cased) that are not case-ignorable.
Cased == {
    "A", "B", "C", "D", "E", "F", "G", "H", "I", "J",
    "K", "L", "M", "N", "O", "P", "Q", "R", "S", "T",
    "U", "V", "W", "X", "Y", "Z", "a", "b", "c", "d",
    "e", "f", "g", "h", "i", "j", "k", "l", "m", "n",
    "o", "p", "q", "r", "s", "t", "u", "v", "w", "x",
    "y", "z", "U+00AA", "U+00B5", "U+00BA", "U+00C0", "U+00C1", "U+00C2", "U+00C3", "U+00C4",
    "U+00C5", "U+00C6", "U+00C7", "U+00C8", "U+00C9", "U+00CA", "U+00CB", "U+00CC", "U+00CD", "U+00CE",
    "U+00CF", "U+00D0", "U+00D1", "U+00D2", "U+00D3", "U+00D4", "U+00D5", "U+00D6", "U+00D8", "U+00D9",
    "U+00DA", "U+00DB", "U+00DC", "U+00DD", "U+00DE", "U+00DF", "U+00E0", "U+00E1", "U+00E2", "U+00E3",
    "U+00E4", "U+00E5", "U+00E6", "U+00E7", "U+00E8", "U+00E9", "U+00EA", "U+00EB", "U+00EC", "U+00ED",
    "U+00EE", "U+00EF", "U+00F0", "U+00F1", "U+00F2", "U+00F3", "U+00F4", "U+00F5", "U+00F6", "U+00F8",
    "U+00F9", "U+00FA", "U+00FB", "U+00FC", "U+00FD", "U+00FE", "U+00FF", "U+0100", "U+0101", "U+0102",
    "U+0103", "U+0104", "U+0105", "U+0106", "U+0107", "U+0108", "U+0109", "U+010A", "U+010B", "U+010C",
    "U+010D", "U+010E", "U+010F", "U+0110", "U+0111", "U+0112", "U+0113", "U+0114", "U+0115", "U+0116",
    "U+0117", "U+0118", "U+0119", "U+011A", "U+011B", "U+011C", "U+011D", "U+011E", "U+011F", "U+0120",
    "U+0121", "U+0122", "U+0123", "U+0124", "U+0125", "U+0126", "U+0127", "U+0128", "U+0129", "U+012A",
    "U+012B", "U+012C", "U+012D", "U+012E", "U+012F", "U+0130", "U+0131", "U+0132", "U+0133", "U+0134",
    "U+0135", "U+0136", "U+0137", "U+0138", "U+0139", "U+013A", "U+013B", "U+013C", "U+013D", "U+013E",
    "U+013F", "U+0140", "U+0141", "U+0142", "U+0143", "U+0144", "U+0145", "U+0146", "U+0147", "U+0148",
    "U+0149", "U+014A", "U+014B", "U+014C", "U+014D", "U+014E", "U+014F", "U+0150", "U+0151", "U+0152",
    "U+0153", "U+0154", "U+0155", "U+0156", "U+0157", "U+0158", "U+0159", "U+015A", "U+015B", "U+015C",
    "U+015D", "U+015E", "U+015F", "U+0160", "U+0161", "U+0162", "U+0163", "U+0164", "U+0165", "U+0166",
    "U+0167", "U+0168", "U+0169", "U+016A", "U+016B", "U+016C", "U+016D", "U+016E", "U+016F", "U+0170",
    "U+0171", "U+0172", "U+0173", "U+0174", "U+0175", "U+0176", "U+0177", "U+0178", "U+0179", "U+017A",
    "U+017B", "U+017C", "U+017D", "U+017E", "U+017F", "U+0180", "U+0181", "U+0182", "U+0183", "U+0184",
    "U+0185", "U+0186", "U+0187", "U+0188", "U+0189", "U+018A", "U+018B", "U+018C", "U+018D", "U+018E",
    "U+018F", "U+0190", "U+0191", "U+0192", "U+0193", "U+0194", "U+0195", "U+0196", "U+0197", "U+0198",
    "U+0199", "U+019A", "U+019B", "U+019C", "U+019D", "U+019E", "U+019F", "U+01A0", "U+01A1", "U+01A2",
    "U+01A3", "U+01A4", "U+01A5", "U+01A6", "U+01A7", "U+01A8", "U+01A9", "U+01AA", "U+01AB", "U+01AC",
    "U+01AD", "U+01AE", "U+01AF", "U+01B0", "U+01B1", "U+01B2", "U+01B3", "U+01B4", "U+01B5", "U+01B6",
    "U+01B7", "U+01B8", "U+01B9", "U+01BA", "U+01BC", "U+01BD", "U+01BE", "U+01BF", "U+01C4", "U+01C5",
    "U+01C6", "U+01C7", "U+01C8", "U+01C9", "U+01CA", "U+01CB", "U+01CC", "U+01CD", "U+01CE", "U+01CF",
    "U+01D0", "U+01D1", "U+01D2", "U+01D3", "U+01D4", "U+01D5", "U+01D6", "U+01D7", "U+01D8", "U+01D9",
    "U+01DA", "U+01DB", "U+01DC", "U+01DD", "U+01DE", "U+01DF", "U+01E0", "U+01E1", "U+01E2", "U+01E3",
    "U+01E4", "U+01E5", "U+01E6", "U+01E7", "U+01E8", "U+01E9", "U+01EA", "U+01EB", "U+01EC", "U+01ED",
    "U+01EE", "U+01EF", "U+01F0", "U+01F1", "U+01F2", "U+01F3", "U+01F4", "U+01F5", "U+01F6", "U+01F7",
    "U+01F8", "U+01F9", "U+01FA", "U+01FB", "U+01FC", "U+01FD", "U+01FE", "U+01FF", "U+0200", "U+0201",
    "U+0202", "U+0203", "U+0204", "U+0205", "U+0206", "U+0207", "U+0208", "U+0209", "U+020A", "U+020B",
    "U+020C", "U+020D", "U+020E", "U+020F", "U+0210", "U+0211", "U+0212", "U+0213", "U+0214", "U+0215",
    "U+0216", "U+0217", "U+0218", "U+0219", "U+021A", "U+021B", "U+021C", "U+021D", "U+021E", "U+021F",
    "U+0220", "U+0221", "U+0222", "U+0223", "U+0224", "U+0225", "U+0226", "U+0227", "U+0228", "U+0229",
    "U+022A", "U+022B", "U+022C", "U+022D", "U+022E", "U+022F", "U+0230", "U+0231", "U+0232", "U+0233",
    "U+0234", "U+0235", "U+0236", "U+0237", "U+0238", "U+0239", "U+023A", "U+023B", "U+023C", "U+023D",
    "U+023E", "U+023F", "U+0240", "U+0241", "U+0242", "U+0243", "U+0244", "U+0245", "U+0246", "U+0247",
    "U+0248", "U+0249", "U+024A", "U+024B", "U+024C", "U+024D", "U+024E", "U+024F", "U+0250", "U+0251",
    "U+0252", "U+0253", "U+0254", "U+0255", "U+0256", "U+0257", "U+0258", "U+0259", "U+025A", "U+025B",
    "U+025C", "U+025D", "U+025E", "U+025F", "U+0260", "U+0261", "U+0262", "U+0263", "U+0264", "U+0265",
    "U+0266", "U+0267", "U+0268", "U+0269", "U+026A", "U+026B", "U+026C", "U+026D", "U+026E", "U+026F",
    "U+0270", "U+0271", "U+0272", "U+0273", "U+0274", "U+0275", "U+0276", "U+0277", "U+0278", "U+0279",
    "U+027A", "U+027B", "U+027C", "U+027D", "U+027E", "U+027F", "U+0280", "U+0281", "U+0282", "U+0283",
    "U+0284", "U+0285", "U+0286", "U+0287", "U+0288", "U+0289", "U+028A", "U+028B", "U+028C", "U+028D",
    "U+028E", "U+028F", "U+0290", "U+0291", "U+0292", "U+0293", "U+0295", "U+0296", "U+0297", "U+0298",
    "U+0299", "U+029A", "U+029B", "U+029C", "U+029D", "U+029E", "U+029F", "U+02A0", "U+02A1", "U+02A2",
    "U+02A3", "U+02A4", "U+02A5", "U+02A6", "U+02A7", "U+02A8", "U+02A9", "U+02AA", "U+02AB", "U+02AC",
    "U+02AD", "U+02AE", "U+02AF", "U+0370", "U+0371", "U+0372", "U+0373", "U+0376", "U+0377", "U+037B",
    "U+037C", "U+037D", "U+037F", "U+0386", "U+0388", "U+0389", "U+038A", "U+038C", "U+038E", "U+038F",
    "U+0390", "U+0391", "U+0392", "U+0393", "U+0394", "U+0395", "U+0396", "U+0397", "U+0398", "U+0399",
    "U+039A", "U+039B", "U+039C", "U+039D", "U+039E", "U+039F", "U+03A0", "U+03A1", "U+03A3", "U+03A4",
    "U+03A5", "U+03A6", "U+03A7", "U+03A8", "U+03A9", "U+03AA", "U+03AB", "U+03AC", "U+03AD", "U+03AE",
    "U+03AF", "U+03B0", "U+03B1", "U+03B2", "U+03B3", "U+03B4", "U+03B5", "U+03B6", "U+03B7", "U+03B8",
    "U+03B9", "U+03BA", "U+03BB", "U+03BC", "U+03BD", "U+03BE", "U+03BF", "U+03C0", "U+03C1", "U+03C2",
    "U+03C3", "U+03C4", "U+03C5", "U+03C6", "U+03C7", "U+03C8", "U+03C9", "U+03CA", "U+03CB", "U+03CC",
    "U+03CD", "U+03CE", "U+03CF", "U+03D0", "U+03D1", "U+03D2", "U+03D3", "U+03D4", "U+03D5", "U+03D6",
    "U+03D7", "U+03D8", "U+03D9", "U+03DA", "U+03DB", "U+03DC", "U+03DD", "U+03DE", "U+03DF", "U+03E0",
    "U+03E1", "U+03E2", "U+03E3", "U+03E4", "U+03E5", "U+03E6", "U+03E7", "U+03E8", "U+03E9", "U+03EA",
    "U+03EB", "U+03EC", "U+03ED", "U+03EE", "U+03EF", "U+03F0", "U+03F1", "U+03F2", "U+03F3", "U+03F4",
    "U+03F5", "U+03F7", "U+03F8", "U+03F9", "U+03FA", "U+03FB", "U+03FC", "U+03FD", "U+03FE", "U+03FF",
    "U+0400", "U+0401", "U+0402", "U+0403", "U+0404", "U+0405", "U+0406", "U+0407", "U+0408", "U+0409",
    "U+040A", "U+040B", "U+040C", "U+040D", "U+040E", "U+040F", "U+0410", "U+0411", "U+0412", "U+0413",
    "U+0414", "U+0415", "U+0416", "U+0417", "U+0418", "U+0419", "U+041A", "U+041B", "U+041C", "U+041D",
    "U+041E", "U+041F", "U+0420", "U+0421", "U+0422", "U+0423", "U+0424", "U+0425", "U+0426", "U+0427",
    "U+0428", "U+0429", "U+042A", "U+042B", "U+042C", "U+042D", "U+042E", "U+042F", "U+0430", "U+0431",
    "U+0432", "U+0433", "U+0434", "U+0435", "U+0436", "U+0437", "U+0438", "U+0439", "U+043A", "U+043B",
    "U+043C", "U+043D", "U+043E", "U+043F", "U+0440", "U+0441", "U+0442", "U+0443", "U+0444", "U+0445",
    "U+0446", "U+0447", "U+0448", "U+0449", "U+044A", "U+044B", "U+044C", "U+044D", "U+044E", "U+044F",
    "U+0450", "U+0451", "U+0452", "U+0453", "U+0454", "U+0455", "U+0456", "U+0457", "U+0458", "U+0459",
    "U+045A", "U+045B", "U+045C", "U+045D", "U+045E", "U+045F", "U+0460", "U+0461", "U+0462", "U+0463",
    "U+0464", "U+0465", "U+0466", "U+0467", "U+0468", "U+0469", "U+046A", "U+046B", "U+046C", "U+046D",
    "U+046E", "U+046F", "U+0470", "U+0471", "U+0472", "U+0473", "U+0474", "U+0475", "U+0476", "U+0477",
    "U+0478", "U+0479", "U+047A", "U+047B", "U+047C", "U+047D", "U+047E", "U+047F", "U+0480", "U+0481",
    "U+048A", "U+048B", "U+048C", "U+048D", "U+048E", "U+048F", "U+0490", "U+0491", "U+0492", "U+0493",
    "U+0494", "U+0495", "U+0496", "U+0497", "U+0498", "U+0499", "U+049A", "U+049B", "U+049C", "U+049D",
    "U+049E", "U+049F", "U+04A0", "U+04A1", "U+04A2", "U+04A3", "U+04A4", "U+04A5", "U+04A6", "U+04A7",
    "U+04A8", "U+04A9", "U+04AA", "U+04AB", "U+04AC", "U+04AD", "U+04AE", "U+04AF", "U+04B0", "U+04B1",
    "U+04B2", "U+04B3", "U+04B4", "U+04B5", "U+04B6", "U+04B7", "U+04B8", "U+04B9", "U+04BA", "U+04BB",
    "U+04BC", "U+04BD", "U+04BE", "U+04BF", "U+04C0", "U+04C1", "U+04C2", "U+04C3", "U+04C4", "U+04C5",
    "U+04C6", "U+04C7", "U+04C8", "U+04C9", "U+04CA", "U+04CB", "U+04CC", "U+04CD", "U+04CE", "U+04CF",
    "U+04D0", "U+04D1", "U+04D2", "U+04D3", "U+04D4", "U+04D5", "U+04D6", "U+04D7", "U+04D8", "U+04D9",
    "U+04DA", "U+04DB", "U+04DC", "U+04DD", "U+04DE", "U+04DF", "U+04E0", "U+04E1", "U+04E2", "U+04E3",
    "U+04E4", "U+04E5", "U+04E6", "U+04E7", "U+04E8", "U+04E9", "U+04EA", "U+04EB", "U+04EC", "U+04ED",
    "U+04EE", "U+04EF", "U+04F0", "U+04F1", "U+04F2", "U+04F3", "U+04F4", "U+04F5", "U+04F6", "U+04F7",
    "U+04F8", "U+04F9", "U+04FA", "U+04FB", "U+04FC", "U+04FD", "U+04FE", "U+04FF", "U+0500", "U+0501",
    "U+0502", "U+0503", "U+0504", "U+0505", "U+0506", "U+0507", "U+0508", "U+0509", "U+050A", "U+050B",
    "U+050C", "U+050D", "U+050E", "U+050F", "U+0510", "U+0511", "U+0512", "U+0513", "U+0514", "U+0515",
    "U+0516", "U+0517", "U+0518", "U+0519", "U+051A", "U+051B", "U+051C", "U+051D", "U+051E", "U+051F",
    "U+0520", "U+0521", "U+0522", "U+0523", "U+0524", "U+0525", "U+0526", "U+0527", "U+0528", "U+0529",
    "U+052A", "U+052B", "U+052C", "U+052D", "U+052E", "U+052F", "U+0531", "U+0532", "U+0533", "U+0534",
    "U+0535", "U+0536", "U+0537", "U+0538", "U+0539", "U+053A", "U+053B", "U+053C", "U+053D", "U+053E",
    "U+053F", "U+0540", "U+0541", "U+0542", "U+0543", "U+0544", "U+0545", "U+0546", "U+0547", "U+0548",
    "U+0549", "U+054A", "U+054B", "U+054C", "U+054D", "U+054E", "U+054F", "U+0550", "U+0551", "U+0552",
    "U+0553", "U+0554", "U+0555", "U+0556", "U+0560", "U+0561", "U+0562", "U+0563", "U+0564", "U+0565",
    "U+0566", "U+0567", "U+0568", "U+0569", "U+056A", "U+056B", "U+056C", "U+056D", "U+056E", "U+056F",
    "U+0570", "U+0571", "U+0572", "U+0573", "U+0574", "U+0575", "U+0576", "U+0577", "U+0578", "U+0579",
    "U+057A", "U+057B", "U+057C", "U+057D", "U+057E", "U+057F", "U+0580", "U+0581", "U+0582", "U+0583",
    "U+0584", "U+0585", "U+0586", "U+0587", "U+0588", "U+10A0", "U+10A1", "U+10A2", "U+10A3", "U+10A4",
    "U+10A5", "U+10A6", "U+10A7", "U+10A8", "U+10A9", "U+10AA", "U+10AB", "U+10AC", "U+10AD", "U+10AE",
    "U+10AF", "U+10B0", "U+10B1", "U+10B2", "U+10B3", "U+10B4", "U+10B5", "U+10B6", "U+10B7", "U+10B8",
    "U+10B9", "U+10BA", "U+10BB", "U+10BC", "U+10BD", "U+10BE", "U+10BF", "U+10C0", "U+10C1", "U+10C2",
    "U+10C3", "U+10C4", "U+10C5", "U+10C7", "U+10CD", "U+10D0", "U+10D1", "U+10D2", "U+10D3", "U+10D4",
    "U+10D5", "U+10D6", "U+10D7", "U+10D8", "U+10D9", "U+10DA", "U+10DB", "U+10DC", "U+10DD", "U+10DE",
    "U+10DF", "U+10E0", "U+10E1", "U+10E2", "U+10E3", "U+10E4", "U+10E5", "U+10E6", "U+10E7", "U+10E8",
    "U+10E9", "U+10EA", "U+10EB", "U+10EC", "U+10ED", "U+10EE", "U+10EF", "U+10F0", "U+10F1", "U+10F2",
    "U+10F3", "U+10F4", "U+10F5", "U+10F6", "U+10F7", "U+10F8", "U+10F9", "U+10FA", "U+10FD", "U+10FE",
    "U+10FF", "U+13A0", "U+13A1", "U+13A2", "U+13A3", "U+13A4", "U+13A5", "U+13A6", "U+13A7", "U+13A8",
    "U+13A9", "U+13AA", "U+13AB", "U+13AC", "U+13AD", "U+13AE", "U+13AF", "U+13B0", "U+13B1", "U+13B2",
    "U+13B3", "U+13B4", "U+13B5", "U+13B6", "U+13B7", "U+13B8", "U+13B9", "U+13BA", "U+13BB", "U+13BC",
    "U+13BD", "U+13BE", "U+13BF", "U+13C0", "U+13C1", "U+13C2", "U+13C3", "U+13C4", "U+13C5", "U+13C6",
    "U+13C7", "U+13C8", "U+13C9", "U+13CA", "U+13CB", "U+13CC", "U+13CD", "U+13CE", "U+13CF", "U+13D0",
    "U+13D1", "U+13D2", "U+13D3", "U+13D4", "U+13D5", "U+13D6", "U+13D7", "U+13D8", "U+13D9", "U+13DA",
    "U+13DB", "U+13DC", "U+13DD", "U+13DE", "U+13DF", "U+13E0", "U+13E1", "U+13E2", "U+13E3", "U+13E4",
    "U+13E5", "U+13E6", "U+13E7", "U+13E8", "U+13E9", "U+13EA", "U+13EB", "U+13EC", "U+13ED", "U+13EE",
    "U+13EF", "U+13F0", "U+13F1", "U+13F2", "U+13F3", "U+13F4", "U+13F5", "U+13F8", "U+13F9", "U+13FA",
    "U+13FB", "U+13FC", "U+13FD", "U+1C80", "U+1C81", "U+1C82", "U+1C83", "U+1C84", "U+1C85", "U+1C86",
    "U+1C87", "U+1C88", "U+1C90", "U+1C91", "U+1C92", "U+1C93", "U+1C94", "U+1C95", "U+1C96", "U+1C97",
    "U+1C98", "U+1C99", "U+1C9A", "U+1C9B", "U+1C9C", "U+1C9D", "U+1C9E", "U+1C9F", "U+1CA0", "U+1CA1",
    "U+1CA2", "U+1CA3", "U+1CA4", "U+1CA5", "U+1CA6", "U+1CA7", "U+1CA8", "U+1CA9", "U+1CAA", "U+1CAB",
    "U+1CAC", "U+1CAD", "U+1CAE", "U+1CAF", "U+1CB0", "U+1CB1", "U+1CB2", "U+1CB3", "U+1CB4", "U+1CB5",
    "U+1CB6", "U+1CB7", "U+1CB8", "U+1CB9", "U+1CBA", "U+1CBD", "U+1CBE", "U+1CBF", "U+1D00", "U+1D01",
    "U+1D02", "U+1D03", "U+1D04", "U+1D05", "U+1D06", "U+1D07", "U+1D08", "U+1D09", "U+1D0A", "U+1D0B",
    "U+1D0C", "U+1D0D", "U+1D0E", "U+1D0F", "U+1D10", "U+1D11", "U+1D12", "U+1D13", "U+1D14", "U+1D15",
    "U+1D16", "U+1D17", "U+1D18", "U+1D19", "U+1D1A", "U+1D1B", "U+1D1C", "U+1D1D", "U+1D1E", "U+1D1F",
    "U+1D20", "U+1D21", "U+1D22", "U+1D23", "U+1D24", "U+1D25", "U+1D26", "U+1D27", "U+1D28", "U+1D29",
    "U+1D2A", "U+1D2B", "U+1D6B", "U+1D6C", "U+1D6D", "U+1D6E", "U+1D6F", "U+1D70", "U+1D71", "U+1D72",
    "U+1D73", "U+1D74", "U+1D75", "U+1D76", "U+1D77", "U+1D79", "U+1D7A", "U+1D7B", "U+1D7C", "U+1D7D",
    "U+1D7E", "U+1D7F", "U+1D80", "U+1D81", "U+1D82", "U+1D83", "U+1D84", "U+1D85", "U+1D86", "U+1D87",
    "U+1D88", "U+1D89", "U+1D8A", "U+1D8B", "U+1D8C", "U+1D8D", "U+1D8E", "U+1D8F", "U+1D90", "U+1D91",
    "U+1D92", "U+1D93", "U+1D94", "U+1D95", "U+1D96", "U+1D97", "U+1D98", "U+1D99", "U+1D9A", "U+1E00",
    "U+1E01", "U+1E02", "U+1E03", "U+1E04", "U+1E05", "U+1E06", "U+1E07", "U+1E08", "U+1E09", "U+1E0A",
    "U+1E0B", "U+1E0C", "U+1E0D", "U+1E0E", "U+1E0F", "U+1E10", "U+1E11", "U+1E12", "U+1E13", "U+1E14",
    "U+1E15", "U+1E16", "U+1E17", "U+1E18", "U+1E19", "U+1E1A", "U+1E1B", "U+1E1C", "U+1E1D", "U+1E1E",
    "U+1E1F", "U+1E20", "U+1E21", "U+1E22", "U+1E23", "U+1E24", "U+1E25", "U+1E26", "U+1E27", "U+1E28",
    "U+1E29", "U+1E2A", "U+1E2B", "U+1E2C", "U+1E2D", "U+1E2E", "U+1E2F", "U+1E30", "U+1E31", "U+1E32",
    "U+1E33", "U+1E34", "U+1E35", "U+1E36", "U+1E37", "U+1E38", "U+1E39", "U+1E3A", "U+1E3B", "U+1E3C",
    "U+1E3D", "U+1E3E", "U+1E3F", "U+1E40", "U+1E41", "U+1E42", "U+1E43", "U+1E44", "U+1E45", "U+1E46",
    "U+1E47", "U+1E48", "U+1E49", "U+1E4A", "U+1E4B", "U+1E4C", "U+1E4D", "U+1E4E", "U+1E4F", "U+1E50",
    "U+1E51", "U+1E52", "U+1E53", "U+1E54", "U+1E55", "U+1E56", "U+1E57", "U+1E58", "U+1E59", "U+1E5A",
    "U+1E5B", "U+1E5C", "U+1E5D", "U+1E5E", "U+1E5F", "U+1E60", "U+1E61", "U+1E62", "U+1E63", "U+1E64",
    "U+1E65", "U+1E66", "U+1E67", "U+1E68", "U+1E69", "U+1E6A", "U+1E6B", "U+1E6C", "U+1E6D", "U+1E6E",
    "U+1E6F", "U+1E70", "U+1E71", "U+1E72", "U+1E73", "U+1E74", "U+1E75", "U+1E76", "U+1E77", "U+1E78",
    "U+1E79", "U+1E7A", "U+1E7B", "U+1E7C", "U+1E7D", "U+1E7E", "U+1E7F", "U+1E80", "U+1E81", "U+1E82",
    "U+1E83", "U+1E84", "U+1E85", "U+1E86", "U+1E87", "U+1E88", "U+1E89", "U+1E8A", "U+1E8B", "U+1E8C",
    "U+1E8D", "U+1E8E", "U+1E8F", "U+1E90", "U+1E91", "U+1E92", "U+1E93", "U+1E94", "U+1E95", "U+1E96",
    "U+1E97", "U+1E98", "U+1E99", "U+1E9A", "U+1E9B", "U+1E9C", "U+1E9D", "U+1E9E", "U+1E9F", "U+1EA0",
    "U+1EA1", "U+1EA2", "U+1EA3", "U+1EA4", "U+1EA5", "U+1EA6", "U+1EA7", "U+1EA8", "U+1EA9", "U+1EAA",
    "U+1EAB", "U+1EAC", "U+1EAD", "U+1EAE", "U+1EAF", "U+1EB0", "U+1EB1", "U+1EB2", "U+1EB3", "U+1EB4",
    "U+1EB5", "U+1EB6", "U+1EB7", "U+1EB8", "U+1EB9", "U+1EBA", "U+1EBB", "U+1EBC", "U+1EBD", "U+1EBE",
    "U+1EBF", "U+1EC0", "U+1EC1", "U+1EC2", "U+1EC3", "U+1EC4", "U+1EC5", "U+1EC6", "U+1EC7", "U+1EC8",
    "U+1EC9", "U+1ECA", "U+1ECB", "U+1ECC", "U+1ECD", "U+1ECE", "U+1ECF", "U+1ED0", "U+1ED1", "U+1ED2",
    "U+1ED3", "U+1ED4", "U+1ED5", "U+1ED6", "U+1ED7", "U+1ED8", "U+1ED9", "U+1EDA", "U+1EDB", "U+1EDC",
    "U+1EDD", "U+1EDE", "U+1EDF", "U+1EE0", "U+1EE1", "U+1EE2", "U+1EE3", "U+1EE4", "U+1EE5", "U+1EE6",
    "U+1EE7", "U+1EE8", "U+1EE9", "U+1EEA", "U+1EEB", "U+1EEC", "U+1EED", "U+1EEE", "U+1EEF", "U+1EF0",
    "U+1EF1", "U+1EF2", "U+1EF3", "U+1EF4", "U+1EF5", "U+1EF6", "U+1EF7", "U+1EF8", "U+1EF9", "U+1EFA",
    "U+1EFB", "U+1EFC", "U+1EFD", "U+1EFE", "U+1EFF", "U+1F00", "U+1F01", "U+1F02", "U+1F03", "U+1F04",
    "U+1F05", "U+1F06", "U+1F07", "U+1F08", "U+1F09", "U+1F0A", "U+1F0B", "U+1F0C", "U+1F0D", "U+1F0E",
    "U+1F0F", "U+1F10", "U+1F11", "U+1F12", "U+1F13", "U+1F14", "U+1F15", "U+1F18", "U+1F19", "U+1F1A",
    "U+1F1B", "U+1F1C", "U+1F1D", "U+1F20", "U+1F21", "U+1F22", "U+1F23", "U+1F24", "U+1F25", "U+1F26",
    "U+1F27", "U+1F28", "U+1F29", "U+1F2A", "U+1F2B", "U+1F2C", "U+1F2D", "U+1F2E", "U+1F2F", "U+1F30",
    "U+1F31", "U+1F32", "U+1F33", "U+1F34", "U+1F35", "U+1F36", "U+1F37", "U+1F38", "U+1F39", "U+1F3A",
    "U+1F3B", "U+1F3C", "U+1F3D", "U+1F3E", "U+1F3F", "U+1F40", "U+1F41", "U+1F42", "U+1F43", "U+1F44",
    "U+1F45", "U+1F48", "U+1F49", "U+1F4A", "U+1F4B", "U+1F4C", "U+1F4D", "U+1F50", "U+1F51", "U+1F52",
    "U+1F53", "U+1F54", "U+1F55", "U+1F56", "U+1F57", "U+1F59", "U+1F5B", "U+1F5D", "U+1F5F", "U+1F60",
    "U+1F61", "U+1F62", "U+1F63", "U+1F64", "U+1F65", "U+1F66", "U+1F67", "U+1F68", "U+1F69", "U+1F6A",
    "U+1F6B", "U+1F6C", "U+1F6D", "U+1F6E", "U+1F6F", "U+1F70", "U+1F71", "U+1F72", "U+1F73", "U+1F74",
    "U+1F75", "U+1F76", "U+1F77", "U+1F78", "U+1F79", "U+1F7A", "U+1F7B", "U+1F7C", "U+1F7D", "U+1F80",
    "U+1F81", "U+1F82", "U+1F83", "U+1F84", "U+1F85", "U+1F86", "U+1F87", "U+1F88", "U+1F89", "U+1F8A",
    "U+1F8B", "U+1F8C", "U+1F8D", "U+1F8E", "U+1F8F", "U+1F90", "U+1F91", "U+1F92", "U+1F93", "U+1F94",
    "U+1F95", "U+1F96", "U+1F97", "U+1F98", "U+1F99", "U+1F9A", "U+1F9B", "U+1F9C", "U+1F9D", "U+1F9E",
    "U+1F9F", "U+1FA0", "U+1FA1", "U+1FA2", "U+1FA3", "U+1FA4", "U+1FA5", "U+1FA6", "U+1FA7", "U+1FA8",
    "U+1FA9", "U+1FAA", "U+1FAB", "U+1FAC", "U+1FAD", "U+1FAE", "U+1FAF", "U+1FB0", "U+1FB1", "U+1FB2",
    "U+1FB3", "U+1FB4", "U+1FB6", "U+1FB7", "U+1FB8", "U+1FB9", "U+1FBA", "U+1FBB", "U+1FBC", "U+1FBE",
    "U+1FC2", "U+1FC3", "U+1FC4", "U+1FC6", "U+1FC7", "U+1FC8", "U+1FC9", "U+1FCA", "U+1FCB", "U+1FCC",
    "U+1FD0", "U+1FD1", "U+1FD2", "U+1FD3", "U+1FD6", "U+1FD7", "U+1FD8", "U+1FD9", "U+1FDA", "U+1FDB",
    "U+1FE0", "U+1FE1", "U+1FE2", "U+1FE3", "U+1FE4", "U+1FE5", "U+1FE6", "U+1FE7", "U+1FE8", "U+1FE9",
    "U+1FEA", "U+1FEB", "U+1FEC", "U+1FF2", "U+1FF3", "U+1FF4", "U+1FF6", "U+1FF7", "U+1FF8", "U+1FF9",
    "U+1FFA", "U+1FFB", "U+1FFC", "U+2102", "U+2107", "U+210A", "U+210B", "U+210C", "U+210D", "U+210E",
    "U+210F", "U+2110", "U+2111", "U+2112", "U+2113", "U+2115", "U+2119", "U+211A", "U+211B", "U+211C",
    "U+211D", "U+2124", "U+2126", "U+2128", "U+212A", "U+212B", "U+212C", "U+212D", "U+212F", "U+2130",
    "U+2131", "U+2132", "U+2133", "U+2134", "U+2139", "U+213C", "U+213D", "U+213E", "U+213F", "U+2145",
    "U+2146", "U+2147", "U+2148", "U+2149", "U+214E", "U+2160", "U+2161", "U+2162", "U+2163", "U+2164",
    "U+2165", "U+2166", "U+2167", "U+2168", "U+2169", "U+216A", "U+216B", "U+216C", "U+216D", "U+216E",
    "U+216F", "U+2170", "U+2171", "U+2172", "U+2173", "U+2174", "U+2175", "U+2176", "U+2177", "U+2178",
    "U+2179", "U+217A", "U+217B", "U+217C", "U+217D", "U+217E", "U+217F", "U+2183", "U+2184", "U+24B6",
    "U+24B7", "U+24B8", "U+24B9", "U+24BA", "U+24BB", "U+24BC", "U+24BD", "U+24BE", "U+24BF", "U+24C0",
    "U+24C1", "U+24C2", "U+24C3", "U+24C4", "U+24C5", "U+24C6", "U+24C7", "U+24C8", "U+24C9", "U+24CA",
    "U+24CB", "U+24CC", "U+24CD", "U+24CE", "U+24CF", "U+24D0", "U+24D1", "U+24D2", "U+24D3", "U+24D4",
    "U+24D5", "U+24D6", "U+24D7", "U+24D8", "U+24D9", "U+24DA", "U+24DB", "U+24DC", "U+24DD", "U+24DE",
    "U+24DF", "U+24E0", "U+24E1", "U+24E2", "U+24E3", "U+24E4", "U+24E5", "U+24E6", "U+24E7", "U+24E8",
    "U+24E9", "U+2C00", "U+2C01", "U+2C02", "U+2C03", "U+2C04", "U+2C05", "U+2C06", "U+2C07", "U+2C08",
    "U+2C09", "U+2C0A", "U+2C0B", "U+2C0C", "U+2C0D", "U+2C0E", "U+2C0F", "U+2C10", "U+2C11", "U+2C12",
    "U+2C13", "U+2C14", "U+2C15", "U+2C16", "U+2C17", "U+2C18", "U+2C19", "U+2C1A", "U+2C1B", "U+2C1C",
    "U+2C1D", "U+2C1E", "U+2C1F", "U+2C20", "U+2C21", "U+2C22", "U+2C23", "U+2C24", "U+2C25", "U+2C26",
    "U+2C27", "U+2C28", "U+2C29", "U+2C2A", "U+2C2B", "U+2C2C", "U+2C2D", "U+2C2E", "U+2C2F", "U+2C30",
    "U+2C31", "U+2C32", "U+2C33", "U+2C34", "U+2C35", "U+2C36", "U+2C37", "U+2C38", "U+2C39", "U+2C3A",
    "U+2C3B", "U+2C3C", "U+2C3D", "U+2C3E", "U+2C3F", "U+2C40", "U+2C41", "U+2C42", "U+2C43", "U+2C44",
    "U+2C45", "U+2C46", "U+2C47", "U+2C48", "U+2C49", "U+2C4A", "U+2C4B", "U+2C4C", "U+2C4D", "U+2C4E",
    "U+2C4F", "U+2C50", "U+2C51", "U+2C52", "U+2C53", "U+2C54", "U+2C55", "U+2C56", "U+2C57", "U+2C58",
    "U+2C59", "U+2C5A", "U+2C5B", "U+2C5C", "U+2C5D", "U+2C5E", "U+2C5F", "U+2C60", "U+2C61", "U+2C62",
    "U+2C63", "U+2C64", "U+2C65", "U+2C66", "U+2C67", "U+2C68", "U+2C69", "U+2C6A", "U+2C6B", "U+2C6C",
    "U+2C6D", "U+2C6E", "U+2C6F", "U+2C70", "U+2C71", "U+2C72", "U+2C73", "U+2C74", "U+2C75", "U+2C76",
    "U+2C77", "U+2C78", "U+2C79", "U+2C7A", "U+2C7B", "U+2C7E", "U+2C7F", "U+2C80", "U+2C81", "U+2C82",
    "U+2C83", "U+2C84", "U+2C85", "U+2C86", "U+2C87", "U+2C88", "U+2C89", "U+2C8A", "U+2C8B", "U+2C8C",
    "U+2C8D", "U+2C8E", "U+2C8F", "U+2C90", "U+2C91", "U+2C92", "U+2C93", "U+2C94", "U+2C95", "U+2C96",
    "U+2C97", "U+2C98", "U+2C99", "U+2C9A", "U+2C9B", "U+2C9C", "U+2C9D", "U+2C9E", "U+2C9F", "U+2CA0",
    "U+2CA1", "U+2CA2", "U+2CA3", "U+2CA4", "U+2CA5", "U+2CA6", "U+2CA7", "U+2CA8", "U+2CA9", "U+2CAA",
    "U+2CAB", "U+2CAC", "U+2CAD", "U+2CAE", "U+2CAF", "U+2CB0", "U+2CB1", "U+2CB2", "U+2CB3", "U+2CB4",
    "U+2CB5", "U+2CB6", "U+2CB7", "U+2CB8", "U+2CB9", "U+2CBA", "U+2CBB", "U+2CBC", "U+2CBD", "U+2CBE",
    "U+2CBF", "U+2CC0", "U+2CC1", "U+2CC2", "U+2CC3", "U+2CC4", "U+2CC5", "U+2CC6", "U+2CC7", "U+2CC8",
    "U+2CC9", "U+2CCA", "U+2CCB", "U+2CCC", "U+2CCD", "U+2CCE", "U+2CCF", "U+2CD0", "U+2CD1", "U+2CD2",
    "U+2CD3", "U+2CD4", "U+2CD5", "U+2CD6", "U+2CD7", "U+2CD8", "U+2CD9", "U+2CDA", "U+2CDB", "U+2CDC",
    "U+2CDD", "U+2CDE", "U+2CDF", "U+2CE0", "U+2CE1", "U+2CE2", "U+2CE3", "U+2CE4", "U+2CEB", "U+2CEC",
    "U+2CED", "U+2CEE", "U+2CF2", "U+2CF3", "U+2D00", "U+2D01", "U+2D02", "U+2D03", "U+2D04", "U+2D05",
    "U+2D06", "U+2D07", "U+2D08", "U+2D09", "U+2D0A", "U+2D0B", "U+2D0C", "U+2D0D", "U+2D0E", "U+2D0F",
    "U+2D10", "U+2D11", "U+2D12", "U+2D13", "U+2D14", "U+2D15", "U+2D16", "U+2D17", "U+2D18", "U+2D19",
    "U+2D1A", "U+2D1B", "U+2D1C", "U+2D1D", "U+2D1E", "U+2D1F", "U+2D20", "U+2D21", "U+2D22", "U+2D23",
    "U+2D24", "U+2D25", "U+2D27", "U+2D2D", "U+A640", "U+A641", "U+A642", "U+A643", "U+A644", "U+A645",
    "U+A646", "U+A647", "U+A648", "U+A649", "U+A64A", "U+A64B", "U+A64C", "U+A64D", "U+A64E", "U+A64F",
    "U+A650", "U+A651", "U+A652", "U+A653", "U+A654", "U+A655", "U+A656", "U+A657", "U+A658", "U+A659",
    "U+A65A", "U+A65B", "U+A65C", "U+A65D", "U+A65E", "U+A65F", "U+A660", "U+A661", "U+A662", "U+A663",
    "U+A664", "U+A665", "U+A666", "U+A667", "U+A668", "U+A669", "U+A66A", "U+A66B", "U+A66C", "U+A66D",
    "U+A680", "U+A681", "U+A682", "U+A683", "U+A684", "U+A685", "U+A686", "U+A687", "U+A688", "U+A689",
    "U+A68A", "U+A68B", "U+A68C", "U+A68D", "U+A68E", "U+A68F", "U+A690", "U+A691", "U+A692", "U+A693",
    "U+A694", "U+A695", "U+A696", "U+A697", "U+A698", "U+A699", "U+A69A", "U+A69B", "U+A722", "U+A723",
    "U+A724", "U+A725", "U+A726", "U+A727", "U+A728", "U+A729", "U+A72A", "U+A72B", "U+A72C", "U+A72D",
    "U+A72E", "U+A72F", "U+A730", "U+A731", "U+A732", "U+A733", "U+A734", "U+A735", "U+A736", "U+A737",
    "U+A738", "U+A739", "U+A73A", "U+A73B", "U+A73C", "U+A73D", "U+A73E", "U+A73F", "U+A740", "U+A741",
    "U+A742", "U+A743", "U+A744", "U+A745", "U+A746", "U+A747", "U+A748", "U+A749", "U+A74A", "U+A74B",
    "U+A74C", "U+A74D", "U+A74E", "U+A74F", "U+A750", "U+A751", "U+A752", "U+A753", "U+A754", "U+A755",
    "U+A756", "U+A757", "U+A758", "U+A759", "U+A75A", "U+A75B", "U+A75C", "U+A75D", "U+A75E", "U+A75F",
    "U+A760", "U+A761", "U+A762", "U+A763", "U+A764", "U+A765", "U+A766", "U+A767", "U+A768", "U+A769",
    "U+A76A", "U+A76B", "U+A76C", "U+A76D", "U+A76E", "U+A76F", "U+A771", "U+A772", "U+A773", "U+A774",
    "U+A775", "U+A776", "U+A777", "U+A778", "U+A779", "U+A77A", "U+A77B", "U+A77C", "U+A77D", "U+A77E",
    "U+A77F", "U+A780", "U+A781", "U+A782", "U+A783", "U+A784", "U+A785", "U+A786", "U+A787", "U+A78B",
    "U+A78C", "U+A78D", "U+A78E", "U+A790", "U+A791", "U+A792", "U+A793", "U+A794", "U+A795", "U+A796",
    "U+A797", "U+A798", "U+A799", "U+A79A", "U+A79B", "U+A79C", "U+A79D", "U+A79E", "U+A79F", "U+A7A0",
    "U+A7A1", "U+A7A2", "U+A7A3", "U+A7A4", "U+A7A5", "U+A7A6", "U+A7A7", "U+A7A8", "U+A7A9", "U+A7AA",
    "U+A7AB", "U+A7AC", "U+A7AD", "U+A7AE", "U+A7AF", "U+A7B0", "U+A7B1", "U+A7B2", "U+A7B3", "U+A7B4",
    "U+A7B5", "U+A7B6", "U+A7B7", "U+A7B8", "U+A7B9", "U+A7BA", "U+A7BB", "U+A7BC", "U+A7BD", "U+A7BE",
    "U+A7BF", "U+A7C0", "U+A7C1", "U+A7C2", "U+A7C3", "U+A7C4", "U+A7C5", "U+A7C6", "U+A7C7", "U+A7C8",
    "U+A7C9", "U+A7CA", "U+A7D0", "U+A7D1", "U+A7D3", "U+A7D5", "U+A7D6", "U+A7D7", "U+A7D8", "U+A7D9",
    "U+A7F5", "U+A7F6", "U+A7FA", "U+AB30", "U+AB31", "U+AB32", "U+AB33", "U+AB34", "U+AB35", "U+AB36",
    "U+AB37", "U+AB38", "U+AB39", "U+AB3A", "U+AB3B", "U+AB3C", "U+AB3D", "U+AB3E", "U+AB3F", "U+AB40",
    "U+AB41", "U+AB42", "U+AB43", "U+AB44", "U+AB45", "U+AB46", "U+AB47", "U+AB48", "U+AB49", "U+AB4A",
    "U+AB4B", "U+AB4C", "U+AB4D", "U+AB4E", "U+AB4F", "U+AB50", "U+AB51", "U+AB52", "U+AB53", "U+AB54",
    "U+AB55", "U+AB56", "U+AB57", "U+AB58", "U+AB59", "U+AB5A", "U+AB60", "U+AB61", "U+AB62", "U+AB63",
    "U+AB64", "U+AB65", "U+AB66", "U+AB67", "U+AB68", "U+AB70", "U+AB71", "U+AB72", "U+AB73", "U+AB74",
    "U+AB75", "U+AB76", "U+AB77", "U+AB78", "U+AB79", "U+AB7A", "U+AB7B", "U+AB7C", "U+AB7D", "U+AB7E",
    "U+AB7F", "U+AB80", "U+AB81", "U+AB82", "U+AB83", "U+AB84", "U+AB85", "U+AB86", "U+AB87", "U+AB88",
    "U+AB89", "U+AB8A", "U+AB8B", "U+AB8C", "U+AB8D", "U+AB8E", "U+AB8F", "U+AB90", "U+AB91", "U+AB92",
    "U+AB93", "U+AB94", "U+AB95", "U+AB96", "U+AB97", "U+AB98", "U+AB99", "U+AB9A", "U+AB9B", "U+AB9C",
    "U+AB9D", "U+AB9E", "U+AB9F", "U+ABA0", "U+ABA1", "U+ABA2", "U+ABA3", "U+ABA4", "U+ABA5", "U+ABA6",
    "U+ABA7", "U+ABA8", "U+ABA9", "U+ABAA", "U+ABAB", "U+ABAC", "U+ABAD", "U+ABAE", "U+ABAF", "U+ABB0",
    "U+ABB1", "U+ABB2", "U+ABB3", "U+ABB4", "U+ABB5", "U+ABB6", "U+ABB7", "U+ABB8", "U+ABB9", "U+ABBA",
    "U+ABBB", "U+ABBC", "U+ABBD", "U+ABBE", "U+ABBF", "U+FB00", "U+FB01", "U+FB02", "U+FB03", "U+FB04",
    "U+FB05", "U+FB06", "U+FB13", "U+FB14", "U+FB15", "U+FB16", "U+FB17", "U+FF21", "U+FF22", "U+FF23",
    "U+FF24", "U+FF25", "U+FF26", "U+FF27", "U+FF28", "U+FF29", "U+FF2A", "U+FF2B", "U+FF2C", "U+FF2D",
    "U+FF2E", "U+FF2F", "U+FF30", "U+FF31", "U+FF32", "U+FF33", "U+FF34", "U+FF35", "U+FF36", "U+FF37",
    "U+FF38", "U+FF39", "U+FF3A", "U+FF41", "U+FF42", "U+FF43", "U+FF44", "U+FF45", "U+FF46", "U+FF47",
    "U+FF48", "U+FF49", "U+FF4A", "U+FF4B", "U+FF4C", "U+FF4D", "U+FF4E", "U+FF4F", "U+FF50", "U+FF51",
    "U+FF52", "U+FF53", "U+FF54", "U+FF55", "U+FF56", "U+FF57", "U+FF58", "U+FF59", "U+FF5A", "U+10400",
    "U+10401", "U+10402", "U+10403", "U+10404", "U+10405", "U+10406", "U+10407", "U+10408", "U+10409", "U+1040A",
    "U+1040B", "U+1040C", "U+1040D", "U+1040E", "U+1040F", "U+10410", "U+10411", "U+10412", "U+10413", "U+10414",
    "U+10415", "U+10416", "U+10417", "U+10418", "U+10419", "U+1041A", "U+1041B", "U+1041C", "U+1041D", "U+1041E",
    "U+1041F", "U+10420", "U+10421", "U+10422", "U+10423", "U+10424", "U+10425", "U+10426", "U+10427", "U+10428",
    "U+10429", "U+1042A", "U+1042B", "U+1042C", "U+1042D", "U+1042E", "U+1042F", "U+10430", "U+10431", "U+10432",
    "U+10433", "U+10434", "U+10435", "U+10436", "U+10437", "U+10438", "U+10439", "U+1043A", "U+1043B", "U+1043C",
    "U+1043D", "U+1043E", "U+1043F", "U+10440", "U+10441", "U+10442", "U+10443", "U+10444", "U+10445", "U+10446",
    "U+10447", "U+10448", "U+10449", "U+1044A", "U+1044B", "U+1044C", "U+1044D", "U+1044E", "U+1044F", "U+104B0",
    "U+104B1", "U+104B2", "U+104B3", "U+104B4", "U+104B5", "U+104B6", "U+104B7", "U+104B8", "U+104B9", "U+104BA",
    "U+104BB", "U+104BC", "U+104BD", "U+104BE", "U+104BF", "U+104C0", "U+104C1", "U+104C2", "U+104C3", "U+104C4",
    "U+104C5", "U+104C6", "U+104C7", "U+104C8", "U+104C9", "U+104CA", "U+104CB", "U+104CC", "U+104CD", "U+104CE",
    "U+104CF", "U+104D0", "U+104D1", "U+104D2", "U+104D3", "U+104D8", "U+104D9", "U+104DA", "U+104DB", "U+104DC",
    "U+104DD", "U+104DE", "U+104DF", "U+104E0", "U+104E1", "U+104E2", "U+104E3", "U+104E4", "U+104E5", "U+104E6",
    "U+104E7", "U+104E8", "U+104E9", "U+104EA", "U+104EB", "U+104EC", "U+104ED", "U+104EE", "U+104EF", "U+104F0",
    "U+104F1", "U+104F2", "U+104F3", "U+104F4", "U+104F5", "U+104F6", "U+104F7", "U+104F8", "U+104F9", "U+104FA",
    "U+104FB", "U+10570", "U+10571", "U+10572", "U+10573", "U+10574", "U+10575", "U+10576", "U+10577", "U+10578",
    "U+10579", "U+1057A", "U+1057C", "U+1057D", "U+1057E", "U+1057F", "U+10580", "U+10581", "U+10582", "U+10583",
    "U+10584", "U+10585", "U+10586", "U+10587", "U+10588", "U+10589", "U+1058A", "U+1058C", "U+1058D", "U+1058E",
    "U+1058F", "U+10590", "U+10591", "U+10592", "U+10594", "U+10595", "U+10597", "U+10598", "U+10599", "U+1059A",
    "U+1059B", "U+1059C", "U+1059D", "U+1059E", "U+1059F", "U+105A0", "U+105A1", "U+105A3", "U+105A4", "U+105A5",
    "U+105A6", "U+105A7", "U+105A8", "U+105A9", "U+105AA", "U+105AB", "U+105AC", "U+105AD", "U+105AE", "U+105AF",
    "U+105B0", "U+105B1", "U+105B3", "U+105B4", "U+105B5", "U+105B6", "U+105B7", "U+105B8", "U+105B9", "U+105BB",
    "U+105BC", "U+10C80", "U+10C81", "U+10C82", "U+10C83", "U+10C84", "U+10C85", "U+10C86", "U+10C87", "U+10C88",
    "U+10C89", "U+10C8A", "U+10C8B", "U+10C8C", "U+10C8D", "U+10C8E", "U+10C8F", "U+10C90", "U+10C91", "U+10C92",
    "U+10C93", "U+10C94", "U+10C95", "U+10C96", "U+10C97", "U+10C98", "U+10C99", "U+10C9A", "U+10C9B", "U+10C9C",
    "U+10C9D", "U+10C9E", "U+10C9F", "U+10CA0", "U+10CA1", "U+10CA2", "U+10CA3", "U+10CA4", "U+10CA5", "U+10CA6",
    "U+10CA7", "U+10CA8", "U+10CA9", "U+10CAA", "U+10CAB", "U+10CAC", "U+10CAD", "U+10CAE", "U+10CAF", "U+10CB0",
    "U+10CB1", "U+10CB2", "U+10CC0", "U+10CC1", "U+10CC2", "U+10CC3", "U+10CC4", "U+10CC5", "U+10CC6", "U+10CC7",
    "U+10CC8", "U+10CC9", "U+10CCA", "U+10CCB", "U+10CCC", "U+10CCD", "U+10CCE", "U+10CCF", "U+10CD0", "U+10CD1",
    "U+10CD2", "U+10CD3", "U+10CD4", "U+10CD5", "U+10CD6", "U+10CD7", "U+10CD8", "U+10CD9", "U+10CDA", "U+10CDB",
    "U+10CDC", "U+10CDD", "U+10CDE", "U+10CDF", "U+10CE0", "U+10CE1", "U+10CE2", "U+10CE3", "U+10CE4", "U+10CE5",
    "U+10CE6", "U+10CE7", "U+10CE8", "U+10CE9", "U+10CEA", "U+10CEB", "U+10CEC", "U+10CED", "U+10CEE", "U+10CEF",
    "U+10CF0", "U+10CF1", "U+10CF2", "U+118A0", "U+118A1", "U+118A2", "U+118A3", "U+118A4", "U+118A5", "U+118A6",
    "U+118A7", "U+118A8", "U+118A9", "U+118AA", "U+118AB", "U+118AC", "U+118AD", "U+118AE", "U+118AF", "U+118B0",
    "U+118B1", "U+118B2", "U+118B3", "U+118B4", "U+118B5", "U+118B6", "U+118B7", "U+118B8", "U+118B9", "U+118BA",
    "U+118BB", "U+118BC", "U+118BD", "U+118BE", "U+118BF", "U+118C0", "U+118C1", "U+118C2", "U+118C3", "U+118C4",
    "U+118C5", "U+118C6", "U+118C7", "U+118C8", "U+118C9", "U+118CA", "U+118CB", "U+118CC", "U+118CD", "U+118CE",
    "U+118CF", "U+118D0", "U+118D1", "U+118D2", "U+118D3", "U+118D4", "U+118D5", "U+118D6", "U+118D7", "U+118D8",
    "U+118D9", "U+118DA", "U+118DB", "U+118DC", "U+118DD", "U+118DE", "U+118DF", "U+16E40", "U+16E41", "U+16E42",
    "U+16E43", "U+16E44", "U+16E45", "U+16E46", "U+16E47", "U+16E48", "U+16E49", "U+16E4A", "U+16E4B", "U+16E4C",
    "U+16E4D", "U+16E4E", "U+16E4F", "U+16E50", "U+16E51", "U+16E52", "U+16E53", "U+16E54", "U+16E55", "U+16E56",
    "U+16E57", "U+16E58", "U+16E59", "U+16E5A", "U+16E5B", "U+16E5C", "U+16E5D", "U+16E5E", "U+16E5F", "U+16E60",
    "U+16E61", "U+16E62", "U+16E63", "U+16E64", "U+16E65", "U+16E66", "U+16E67", "U+16E68", "U+16E69", "U+16E6A",
    "U+16E6B", "U+16E6C", "U+16E6D", "U+16E6E", "U+16E6F", "U+16E70", "U+16E71", "U+16E72", "U+16E73", "U+16E74",
    "U+16E75", "U+16E76", "U+16E77", "U+16E78", "U+16E79", "U+16E7A", "U+16E7B", "U+16E7C", "U+16E7D", "U+16E7E",
    "U+16E7F", "U+1D400", "U+1D401", "U+1D402", "U+1D403", "U+1D404", "U+1D405", "U+1D406", "U+1D407", "U+1D408",
    "U+1D409", "U+1D40A", "U+1D40B", "U+1D40C", "U+1D40D", "U+1D40E", "U+1D40F", "U+1D410", "U+1D411", "U+1D412",
    "U+1D413", "U+1D414", "U+1D415", "U+1D416", "U+1D417", "U+1D418", "U+1D419", "U+1D41A", "U+1D41B", "U+1D41C",
    "U+1D41D", "U+1D41E", "U+1D41F", "U+1D420", "U+1D421", "U+1D422", "U+1D423", "U+1D424", "U+1D425", "U+1D426",
    "U+1D427", "U+1D428", "U+1D429", "U+1D42A", "U+1D42B", "U+1D42C", "U+1D42D", "U+1D42E", "U+1D42F", "U+1D430",
    "U+1D431", "U+1D432", "U+1D433", "U+1D434", "U+1D435", "U+1D436", "U+1D437", "U+1D438", "U+1D439", "U+1D43A",
    "U+1D43B", "U+1D43C", "U+1D43D", "U+1D43E", "U+1D43F", "U+1D440", "U+1D441", "U+1D442", "U+1D443", "U+1D444",
    "U+1D445", "U+1D446", "U+1D447", "U+1D448", "U+1D449", "U+1D44A", "U+1D44B", "U+1D44C", "U+1D44D", "U+1D44E",
    "U+1D44F", "U+1D450", "U+1D451", "U+1D452", "U+1D453", "U+1D454", "U+1D456", "U+1D457", "U+1D458", "U+1D459",
    "U+1D45A", "U+1D45B", "U+1D45C", "U+1D45D", "U+1D45E", "U+1D45F", "U+1D460", "U+1D461", "U+1D462", "U+1D463",
    "U+1D464", "U+1D465", "U+1D466", "U+1D467", "U+1D468", "U+1D469", "U+1D46A", "U+1D46B", "U+1D46C", "U+1D46D",
    "U+1D46E", "U+1D46F", "U+1D470", "U+1D471", "U+1D472", "U+1D473", "U+1D474", "U+1D475", "U+1D476", "U+1D477",
    "U+1D478", "U+1D479", "U+1D47A", "U+1D47B", "U+1D47C", "U+1D47D", "U+1D47E", "U+1D47F", "U+1D480", "U+1D481",
    "U+1D482", "U+1D483", "U+1D484", "U+1D485", "U+1D486", "U+1D487", "U+1D488", "U+1D489", "U+1D48A", "U+1D48B",
    "U+1D48C", "U+1D48D", "U+1D48E", "U+1D48F", "U+1D490", "U+1D491", "U+1D492", "U+1D493", "U+1D494", "U+1D495",
    "U+1D496", "U+1D497", "U+1D498", "U+1D499", "U+1D49A", "U+1D49B", "U+1D49C", "U+1D49E", "U+1D49F", "U+1D4A2",
    "U+1D4A5", "U+1D4A6", "U+1D4A9", "U+1D4AA", "U+1D4AB", "U+1D4AC", "U+1D4AE", "U+1D4AF", "U+1D4B0", "U+1D4B1",
    "U+1D4B2", "U+1D4B3", "U+1D4B4", "U+1D4B5", "U+1D4B6", "U+1D4B7", "U+1D4B8", "U+1D4B9", "U+1D4BB", "U+1D4BD",
    "U+1D4BE", "U+1D4BF", "U+1D4C0", "U+1D4C1", "U+1D4C2", "U+1D4C3", "U+1D4C5", "U+1D4C6", "U+1D4C7", "U+1D4C8",
    "U+1D4C9", "U+1D4CA", "U+1D4CB", "U+1D4CC", "U+1D4CD", "U+1D4CE", "U+1D4CF", "U+1D4D0", "U+1D4D1", "U+1D4D2",
    "U+1D4D3", "U+1D4D4", "U+1D4D5", "U+1D4D6", "U+1D4D7", "U+1D4D8", "U+1D4D9", "U+1D4DA", "U+1D4DB", "U+1D4DC",
    "U+1D4DD", "U+1D4DE", "U+1D4DF", "U+1D4E0", "U+1D4E1", "U+1D4E2", "U+1D4E3", "U+1D4E4", "U+1D4E5", "U+1D4E6",
    "U+1D4E7", "U+1D4E8", "U+1D4E9", "U+1D4EA", "U+1D4EB", "U+1D4EC", "U+1D4ED", "U+1D4EE", "U+1D4EF", "U+1D4F0",
    "U+1D4F1", "U+1D4F2", "U+1D4F3", "U+1D4F4", "U+1D4F5", "U+1D4F6", "U+1D4F7", "U+1D4F8", "U+1D4F9", "U+1D4FA",
    "U+1D4FB", "U+1D4FC", "U+1D4FD", "U+1D4FE", "U+1D4FF", "U+1D500", "U+1D501", "U+1D502", "U+1D503", "U+1D504",
    "U+1D505", "U+1D507", "U+1D508", "U+1D509", "U+1D50A", "U+1D50D", "U+1D50E", "U+1D50F", "U+1D510", "U+1D511",
    "U+1D512", "U+1D513", "U+1D514", "U+1D516", "U+1D517", "U+1D518", "U+1D519", "U+1D51A", "U+1D51B", "U+1D51C",
    "U+1D51E", "U+1D51F", "U+1D520", "U+1D521", "U+1D522", "U+1D523", "U+1D524", "U+1D525", "U+1D526", "U+1D527",
    "U+1D528", "U+1D529", "U+1D52A", "U+1D52B", "U+1D52C", "U+1D52D", "U+1D52E", "U+1D52F", "U+1D530", "U+1D531",
    "U+1D532", "U+1D533", "U+1D534", "U+1D535", "U+1D536", "U+1D537", "U+1D538", "U+1D539", "U+1D53B", "U+1D53C",
    "U+1D53D", "U+1D53E", "U+1D540", "U+1D541", "U+1D542", "U+1D543", "U+1D544", "U+1D546", "U+1D54A", "U+1D54B",
    "U+1D54C", "U+1D54D", "U+1D54E", "U+1D54F", "U+1D550", "U+1D552", "U+1D553", "U+1D554", "U+1D555", "U+1D556",
    "U+1D557", "U+1D558", "U+1D559", "U+1D55A", "U+1D55B", "U+1D55C", "U+1D55D", "U+1D55E", "U+1D55F", "U+1D560",
    "U+1D561", "U+1D562", "U+1D563", "U+1D564", "U+1D565", "U+1D566", "U+1D567", "U+1D568", "U+1D569", "U+1D56A",
    "U+1D56B", "U+1D56C", "U+1D56D", "U+1D56E", "U+1D56F", "U+1D570", "U+1D571", "U+1D572", "U+1D573", "U+1D574",
    "U+1D575", "U+1D576", "U+1D577", "U+1D578", "U+1D579", "U+1D57A", "U+1D57B", "U+1D57C", "U+1D57D", "U+1D57E",
    "U+1D57F", "U+1D580", "U+1D581", "U+1D582", "U+1D583", "U+1D584", "U+1D585", "U+1D586", "U+1D587", "U+1D588",
    "U+1D589", "U+1D58A", "U+1D58B", "U+1D58C", "U+1D58D", "U+1D58E", "U+1D58F", "U+1D590", "U+1D591", "U+1D592",
    "U+1D593", "U+1D594", "U+1D595", "U+1D596", "U+1D597", "U+1D598", "U+1D599", "U+1D59A", "U+1D59B", "U+1D59C",
    "U+1D59D", "U+1D59E", "U+1D59F", "U+1D5A0", "U+1D5A1", "U+1D5A2", "U+1D5A3", "U+1D5A4", "U+1D5A5", "U+1D5A6",
    "U+1D5A7", "U+1D5A8", "U+1D5A9", "U+1D5AA", "U+1D5AB", "U+1D5AC", "U+1D5AD", "U+1D5AE", "U+1D5AF", "U+1D5B0",
    "U+1D5B1", "U+1D5B2", "U+1D5B3", "U+1D5B4", "U+1D5B5", "U+1D5B6", "U+1D5B7", "U+1D5B8", "U+1D5B9", "U+1D5BA",
    "U+1D5BB", "U+1D5BC", "U+1D5BD", "U+1D5BE", "U+1D5BF", "U+1D5C0", "U+1D5C1", "U+1D5C2", "U+1D5C3", "U+1D5C4",
    "U+1D5C5", "U+1D5C6", "U+1D5C7", "U+1D5C8", "U+1D5C9", "U+1D5CA", "U+1D5CB", "U+1D5CC", "U+1D5CD", "U+1D5CE",
    "U+1D5CF", "U+1D5D0", "U+1D5D1", "U+1D5D2", "U+1D5D3", "U+1D5D4", "U+1D5D5", "U+1D5D6", "U+1D5D7", "U+1D5D8",
    "U+1D5D9", "U+1D5DA", "U+1D5DB", "U+1D5DC", "U+1D5DD", "U+1D5DE", "U+1D5DF", "U+1D5E0", "U+1D5E1", "U+1D5E2",
    "U+1D5E3", "U+1D5E4", "U+1D5E5", "U+1D5E6", "U+1D5E7", "U+1D5E8", "U+1D5E9", "U+1D5EA", "U+1D5EB", "U+1D5EC",
    "U+1D5ED", "U+1D5EE", "U+1D5EF", "U+1D5F0", "U+1D5F1", "U+1D5F2", "U+1D5F3", "U+1D5F4", "U+1D5F5", "U+1D5F6",
    "U+1D5F7", "U+1D5F8", "U+1D5F9", "U+1D5FA", "U+1D5FB", "U+1D5FC", "U+1D5FD", "U+1D5FE", "U+1D5FF", "U+1D600",
    "U+1D601", "U+1D602", "U+1D603", "U+1D604", "U+1D605", "U+1D606", "U+1D607", "U+1D608", "U+1D609", "U+1D60A",
    "U+1D60B", "U+1D60C", "U+1D60D", "U+1D60E", "U+1D60F", "U+1D610", "U+1D611", "U+1D612", "U+1D613", "U+1D614",
    "U+1D615", "U+1D616", "U+1D617", "U+1D618", "U+1D619", "U+1D61A", "U+1D61B", "U+1D61C", "U+1D61D", "U+1D61E",
    "U+1D61F", "U+1D620", "U+1D621", "U+1D622", "U+1D623", "U+1D624", "U+1D625", "U+1D626", "U+1D627", "U+1D628",
    "U+1D629", "U+1D62A", "U+1D62B", "U+1D62C", "U+1D62D", "U+1D62E", "U+1D62F", "U+1D630", "U+1D631", "U+1D632",
    "U+1D633", "U+1D634", "U+1D635", "U+1D636", "U+1D637", "U+1D638", "U+1D639", "U+1D63A", "U+1D63B", "U+1D63C",
    "U+1D63D", "U+1D63E", "U+1D63F", "U+1D640", "U+1D641", "U+1D642", "U+1D643", "U+1D644", "U+1D645", "U+1D646",
    "U+1D647", "U+1D648", "U+1D649", "U+1D64A", "U+1D64B", "U+1D64C", "U+1D64D", "U+1D64E", "U+1D64F", "U+1D650",
    "U+1D651", "U+1D652", "U+1D653", "U+1D654", "U+1D655", "U+1D656", "U+1D657", "U+1D658", "U+1D659", "U+1D65A",
    "U+1D65B", "U+1D65C", "U+1D65D", "U+1D65E", "U+1D65F", "U+1D660", "U+1D661", "U+1D662", "U+1D663", "U+1D664",
    "U+1D665", "U+1D666", "U+1D667", "U+1D668", "U+1D669", "U+1D66A", "U+1D66B", "U+1D66C", "U+1D66D", "U+1D66E",
    "U+1D66F", "U+1D670", "U+1D671", "U+1D672", "U+1D673", "U+1D674", "U+1D675", "U+1D676", "U+1D677", "U+1D678",
    "U+1D679", "U+1D67A", "U+1D67B", "U+1D67C", "U+1D67D", "U+1D67E", "U+1D67F", "U+1D680", "U+1D681", "U+1D682",
    "U+1D683", "U+1D684", "U+1D685", "U+1D686", "U+1D687", "U+1D688", "U+1D689", "U+1D68A", "U+1D68B", "U+1D68C",
    "U+1D68D", "U+1D68E", "U+1D68F", "U+1D690", "U+1D691", "U+1D692", "U+1D693", "U+1D694", "U+1D695", "U+1D696",
    "U+1D697", "U+1D698", "U+1D699", "U+1D69A", "U+1D69B", "U+1D69C", "U+1D69D", "U+1D69E", "U+1D69F", "U+1D6A0",
    "U+1D6A1", "U+1D6A2", "U+1D6A3", "U+1D6A4", "U+1D6A5", "U+1D6A8", "U+1D6A9", "U+1D6AA", "U+1D6AB", "U+1D6AC",
    "U+1D6AD", "U+1D6AE", "U+1D6AF", "U+1D6B0", "U+1D6B1", "U+1D6B2", "U+1D6B3", "U+1D6B4", "U+1D6B5", "U+1D6B6",
    "U+1D6B7", "U+1D6B8", "U+1D6B9", "U+1D6BA", "U+1D6BB", "U+1D6BC", "U+1D6BD", "U+1D6BE", "U+1D6BF", "U+1D6C0",
    "U+1D6C2", "U+1D6C3", "U+1D6C4", "U+1D6C5", "U+1D6C6", "U+1D6C7", "U+1D6C8", "U+1D6C9", "U+1D6CA", "U+1D6CB",
    "U+1D6CC", "U+1D6CD", "U+1D6CE", "U+1D6CF", "U+1D6D0", "U+1D6D1", "U+1D6D2", "U+1D6D3", "U+1D6D4", "U+1D6D5",
    "U+1D6D6", "U+1D6D7", "U+1D6D8", "U+1D6D9", "U+1D6DA", "U+1D6DC", "U+1D6DD", "U+1D6DE", "U+1D6DF", "U+1D6E0",
    "U+1D6E1", "U+1D6E2", "U+1D6E3", "U+1D6E4", "U+1D6E5", "U+1D6E6", "U+1D6E7", "U+1D6E8", "U+1D6E9", "U+1D6EA",
    "U+1D6EB", "U+1D6EC", "U+1D6ED", "U+1D6EE", "U+1D6EF", "U+1D6F0", "U+1D6F1", "U+1D6F2", "U+1D6F3", "U+1D6F4",
    "U+1D6F5", "U+1D6F6", "U+1D6F7", "U+1D6F8", "U+1D6F9", "U+1D6FA", "U+1D6FC", "U+1D6FD", "U+1D6FE", "U+1D6FF",
    "U+1D700", "U+1D701", "U+1D702", "U+1D703", "U+1D704", "U+1D705", "U+1D706", "U+1D707", "U+1D708", "U+1D709",
    "U+1D70A", "U+1D70B", "U+1D70C", "U+1D70D", "U+1D70E", "U+1D70F", "U+1D710", "U+1D711", "U+1D712", "U+1D713",
    "U+1D714", "U+1D716", "U+1D717", "U+1D718", "U+1D719", "U+1D71A", "U+1D71B", "U+1D71C", "U+1D71D", "U+1D71E",
    "U+1D71F", "U+1D720", "U+1D721", "U+1D722", "U+1D723", "U+1D724", "U+1D725", "U+1D726", "U+1D727", "U+1D728",
    "U+1D729", "U+1D72A", "U+1D72B", "U+1D72C", "U+1D72D", "U+1D72E", "U+1D72F", "U+1D730", "U+1D731", "U+1D732",
    "U+1D733", "U+1D734", "U+1D736", "U+1D737", "U+1D738", "U+1D739", "U+1D73A", "U+1D73B", "U+1D73C", "U+1D73D",
    "U+1D73E", "U+1D73F", "U+1D740", "U+1D741", "U+1D742", "U+1D743", "U+1D744", "U+1D745", "U+1D746", "U+1D747",
    "U+1D748", "U+1D749", "U+1D74A", "U+1D74B", "U+1D74C", "U+1D74D", "U+1D74E", "U+1D750", "U+1D751", "U+1D752",
    "U+1D753", "U+1D754", "U+1D755", "U+1D756", "U+1D757", "U+1D758", "U+1D759", "U+1D75A", "U+1D75B", "U+1D75C",
    "U+1D75D", "U+1D75E", "U+1D75F", "U+1D760", "U+1D761", "U+1D762", "U+1D763", "U+1D764", "U+1D765", "U+1D766",
    "U+1D767", "U+1D768", "U+1D769", "U+1D76A", "U+1D76B", "U+1D76C", "U+1D76D", "U+1D76E", "U+1D770", "U+1D771",
    "U+1D772", "U+1D773", "U+1D774", "U+1D775", "U+1D776", "U+1D777", "U+1D778", "U+1D779", "U+1D77A", "U+1D77B",
    "U+1D77C", "U+1D77D", "U+1D77E", "U+1D77F", "U+1D780", "U+1D781", "U+1D782", "U+1D783", "U+1D784", "U+1D785",
    "U+1D786", "U+1D787", "U+1D788", "U+1D78A", "U+1D78B", "U+1D78C", "U+1D78D", "U+1D78E", "U+1D78F", "U+1D790",
    "U+1D791", "U+1D792", "U+1D793", "U+1D794", "U+1D795", "U+1D796", "U+1D797", "U+1D798", "U+1D799", "U+1D79A",
    "U+1D79B", "U+1D79C", "U+1D79D", "U+1D79E", "U+1D79F", "U+1D7A0", "U+1D7A1", "U+1D7A2", "U+1D7A3", "U+1D7A4",
    "U+1D7A5", "U+1D7A6", "U+1D7A7", "U+1D7A8", "U+1D7AA", "U+1D7AB", "U+1D7AC", "U+1D7AD", "U+1D7AE", "U+1D7AF",
    "U+1D7B0", "U+1D7B1", "U+1D7B2", "U+1D7B3", "U+1D7B4", "U+1D7B5", "U+1D7B6", "U+1D7B7", "U+1D7B8", "U+1D7B9",
    "U+1D7BA", "U+1D7BB", "U+1D7BC", "U+1D7BD", "U+1D7BE", "U+1D7BF", "U+1D7C0", "U+1D7C1", "U+1D7C2", "U+1D7C4",
    "U+1D7C5", "U+1D7C6", "U+1D7C7", "U+1D7C8", "U+1D7C9", "U+1D7CA", "U+1D7CB", "U+1DF00", "U+1DF01", "U+1DF02",
    "U+1DF03", "U+1DF04", "U+1DF05", "U+1DF06", "U+1DF07", "U+1DF08", "U+1DF09", "U+1DF0B", "U+1DF0C", "U+1DF0D",
    "U+1DF0E", "U+1DF0F", "U+1DF10", "U+1DF11", "U+1DF12", "U+1DF13", "U+1DF14", "U+1DF15", "U+1DF16", "U+1DF17",
    "U+1DF18", "U+1DF19", "U+1DF1A", "U+1DF1B", "U+1DF1C", "U+1DF1D", "U+1DF1E", "U+1E900", "U+1E901", "U+1E902",
    "U+1E903", "U+1E904", "U+1E905", "U+1E906", "U+1E907", "U+1E908", "U+1E909", "U+1E90A", "U+1E90B", "U+1E90C",
    "U+1E90D", "U+1E90E", "U+1E90F", "U+1E910", "U+1E911", "U+1E912", "U+1E913", "U+1E914", "U+1E915", "U+1E916",
    "U+1E917", "U+1E918", "U+1E919", "U+1E91A", "U+1E91B", "U+1E91C", "U+1E91D", "U+1E91E", "U+1E91F", "U+1E920",
    "U+1E921", "U+1E922", "U+1E923", "U+1E924", "U+1E925", "U+1E926", "U+1E927", "U+1E928", "U+1E929", "U+1E92A",
    "U+1E92B", "U+1E92C", "U+1E92D", "U+1E92E", "U+1E92F", "U+1E930", "U+1E931", "U+1E932", "U+1E933", "U+1E934",
    "U+1E935", "U+1E936", "U+1E937", "U+1E938", "U+1E939", "U+1E93A", "U+1E93B", "U+1E93C", "U+1E93D", "U+1E93E",
    "U+1E93F", "U+1E940", "U+1E941", "U+1E942", "U+1E943", "U+1F130", "U+1F131", "U+1F132", "U+1F133", "U+1F134",
    "U+1F135", "U+1F136", "U+1F137", "U+1F138", "U+1F139", "U+1F13A", "U+1F13B", "U+1F13C", "U+1F13D", "U+1F13E",
    "U+1F13F", "U+1F140", "U+1F141", "U+1F142", "U+1F143", "U+1F144", "U+1F145", "U+1F146", "U+1F147", "U+1F148",
    "U+1F149", "U+1F150", "U+1F151", "U+1F152", "U+1F153", "U+1F154", "U+1F155", "U+1F156", "U+1F157", "U+1F158",
    "U+1F159", "U+1F15A", "U+1F15B", "U+1F15C", "U+1F15D", "U+1F15E", "U+1F15F", "U+1F160", "U+1F161", "U+1F162",
    "U+1F163", "U+1F164", "U+1F165", "U+1F166", "U+1F167", "U+1F168", "U+1F169", "U+1F170", "U+1F171", "U+1F172",
    "U+1F173", "U+1F174", "U+1F175", "U+1F176", "U+1F177", "U+1F178", "U+1F179", "U+1F17A", "U+1F17B", "U+1F17C",
    "U+1F17D", "U+1F17E", "U+1F17F", "U+1F180", "U+1F181", "U+1F182", "U+1F183", "U+1F184", "U+1F185", "U+1F186",
    "U+1F187", "U+1F188", "U+1F189" }

\* content.lower(): every character by the table, and the capital sigma by
\* the final-sigma rule: it lower-cases to the final form when, case-ignorable
\* characters skipped, a cased character stands before it and none stands
\* after it.
Lower(s) ==
  LET FinalSigma(k) ==
        /\ \E j \in 1..(k - 1) :
             /\ s[j] \in Cased
             /\ \A i \in (j + 1)..(k - 1) : s[i] \in CaseIgnorable
        /\ ~ \E j \in (k + 1)..Len(s) :
               /\ s[j] \in Cased
               /\ \A i \in (k + 1)..(j - 1) : s[i] \in CaseIgnorable
      RECURSIVE LowerFrom(_)
      LowerFrom(k) ==
        IF k > Len(s) THEN << >>
        ELSE (IF s[k] = "U+03A3"
              THEN (IF FinalSigma(k) THEN << "U+03C2" >> ELSE << "U+03C3" >>)
              ELSE IF s[k] \in DOMAIN LowerCase THEN LowerCase[s[k]]
              ELSE << s[k] >>)
             \o LowerFrom(k + 1)
  IN  LowerFrom(1)

\* sub in s
HasSubstring(s, sub) ==
  \E k \in 1..(Len(s) + 1) :
    k + Len(sub) - 1 <= Len(s) /\ SubSeq(s, k, k + Len(sub) - 1) = sub

\* f"Changelog - {release_version}"
PageTitle(version) == <<"C","h","a","n","g","e","l","o","g"," ","-"," ">> \o version

\* Mutant of IsSummaryHeading: the content is not lower-cased.
IsSummaryHeading_CaseSensitive(block) ==
  /\ block.type = "heading_2"
  /\ block.rich_text # << >>
  /\ \E n \in 1..Len(block.rich_text) :
       HasSubstring(block.rich_text[n].content, <<"s","u","m","m","a","r","y">>)

\* The test _generate_ai_summary makes on a listed block.
IsSummaryHeading(block) ==
  /\ block.type = "heading_2"
  /\ block.rich_text # << >>
  /\ \E n \in 1..Len(block.rich_text) :
       \E content \in { Lower(block.rich_text[n].content) } :
         HasSubstring(content, <<"s","u","m","m","a","r","y">>)

\* The three blocks _generate_ai_summary appends.
SummaryBlocks(summary) ==
  << [type |-> "heading_2",
      rich_text |-> << PlainSpan(<<"U+1F4CB"," ","R","e","l","e","a","s","e"," ","S","u","m","m","a","r","y">>) >>],
     [type |-> "paragraph", rich_text |-> << PlainSpan(summary) >>],
     [type |-> "divider", rich_text |-> << >>] >>

\* _get_database_schema: the property names, none when the call raised.
_get_database_schema(schema) == IF schema.ok THEN schema.properties ELSE {}

\* Mutant of Parent: the configured default database is looked at before
\* the argument.
Parent_DefaultFirst(integration, database_id) ==
  IF Truthy(integration.database_id)
  THEN [key |-> "database_id", id |-> integration.database_id]
  ELSE IF Truthy(database_id) THEN [key |-> "database_id", id |-> database_id]
  ELSE IF Truthy(integration.parent_page_id)
  THEN [key |-> "page_id", id |-> integration.parent_page_id]
  ELSE [key |-> "none", id |-> None]

\* The parent pages.create is given.
Parent(integration, database_id) ==
  IF Truthy(database_id) THEN [key |-> "database_id", id |-> database_id]
  ELSE IF Truthy(integration.database_id)
  THEN [key |-> "database_id", id |-> integration.database_id]
  ELSE IF Truthy(integration.parent_page_id)
  THEN [key |-> "page_id", id |-> integration.parent_page_id]
  ELSE [key |-> "none", id |-> None]

\* Mutant of find_existing_page: the last result is returned.
find_existing_page_LastResult(integration, version, database_id, response) ==
  [calls |-> << Call(IF Truthy(database_id) \/ Truthy(integration.database_id)
                     THEN "databases.query" ELSE "search",
                     [database_id |-> IF Truthy(database_id) THEN database_id
                                      ELSE integration.database_id,
                      title |-> PageTitle(version),
                      results |-> response.results],
                     response.ok) >>,
   result |-> IF response.ok /\ response.results # << >>
              THEN Returned(response.results[Len(response.results)])
              ELSE Returned(None)]

\* find_existing_page: the call made, with the title looked for and the
\* list the service answered, and what is returned.
find_existing_page(integration, version, database_id, response) ==
  LET search_query == PageTitle(version)
      query ==
        IF Truthy(database_id)
        THEN Call("databases.query",
                  [database_id |-> database_id, title |-> search_query,
                   results |-> response.results],
                  response.ok)
        ELSE IF Truthy(integration.database_id)
        THEN Call("databases.query",
                  [database_id |-> integration.database_id, title |-> search_query,
                   results |-> response.results],
                  response.ok)
        ELSE Call("search",
                  [database_id |-> None, title |-> search_query,
                   results |-> response.results],
                  response.ok)
  IN
  [calls |-> << query >>,
   result |-> IF response.ok /\ response.results # << >>
              THEN Returned(response.results[1])
              ELSE Returned(None)]

\* The browser sessions that use the application at once.
MaxSessions == 2

\* The client calls that raise although the service could have served
\* them, over one behaviour.
MaxFailures == 2

\* The calls of the integration that are made over one behaviour.
MaxCalls == 3

\* A session between two calls of the integration: st.session_state holds
\* the database chosen in the sidebar.  Inside a call the session holds the
\* call's arguments and locals, the page the call works on (page_id, its
\* place among the pages), the place it has reached (at) and the client
\* calls it has made so far (log).
IdleSession(selection) ==
  [selected_database_id |-> selection,
   operation |-> "none", at |-> "idle",
   markdown_content |-> None, database_id |-> None, properties |-> {},
   page_id |-> 0, listed |-> << >>, k |-> 0, log |-> << >>]

\* What a client call that the service could serve may do: return (TRUE),
\* or raise while failures are left to spend.
Answers == IF failures < MaxFailures THEN {TRUE, FALSE} ELSE {TRUE}

\* The listing a session holds, after the block at place p of the page is
\* gone: places behind it move up by one and the place itself becomes 0,
\* a block that is no longer there.
Shifted(listed, p) ==
  [i \in 1..Len(listed) |->
     IF listed[i] = p THEN 0
     ELSE IF listed[i] > p THEN listed[i] - 1
     ELSE listed[i]]

\* Mutant of NextDelete: the loop stops at the first delete that raises.
NextDelete_StopsAtFailedDelete(listed, k, ok) ==
  IF k < Len(listed) /\ ok THEN [k |-> k + 1, at |-> "blocks.delete"]
  ELSE [k |-> k, at |-> "blocks.children.append"]

\* Where update_existing_page goes after the delete of the k-th listed
\* block returned or raised: to the next listed block, and to the append
\* of the new blocks after the last one.
NextDelete(listed, k, ok) ==
  IF k < Len(listed) THEN [k |-> k + 1, at |-> "blocks.delete"]
  ELSE [k |-> k, at |-> "blocks.children.append"]

\* What the call in which the summary step ended gives its caller:
\* create_release_notes_page returns the page id and update_existing_page
\* True whatever _generate_ai_summary did or raised; _generate_ai_summary
\* itself returns True or False.
AfterSummary(operation, page_id, returned) ==
  IF operation = "create_release_notes_page" THEN Returned(PageId(page_id))
  ELSE IF operation = "update_existing_page" THEN Returned(True)
  ELSE Returned(returned)

InitPage ==
  /\ issues = << >>
  /\ release_version = <<"1",".","2",".","0">>
  /\ now = None
  /\ markdown = None
  /\ blocks = << >>
  /\ pc = "notion"
  /\ self = [database_id |-> None, parent_page_id |-> None]
  /\ \E n \in 1..MaxSessions :
       sessions = [s \in 1..n |-> IdleSession(<<"d","b","-","1">>)]
  /\ failures = 0
  /\ invocations = 0
  /\ pages = << >>
  /\ calls = << >>
  /\ result = NoResult
  /\ LINEAR_API_KEY = None
  /\ files = [label \in ReleaseLabels |-> NoFile]
  /\ today = 1
  /\ processes = << >>

\* The sidebar of a run of the script: get_databases searches for the
\* databases, giving none when the search raises; the database chosen in
\* the select box, if one is chosen, is written to the session's state.
\* The workspace has the one database "db-1".
SelectDatabase(s) ==
  /\ pc = "notion"
  /\ sessions[s].at = "idle"
  /\ \E found \in {TRUE, FALSE} :
       /\ UNCHANGED failures
       /\ \E selected_database \in { sessions[s].selected_database_id }
                                     \cup (IF found THEN { <<"d","b","-","1">> } ELSE {}) :
            sessions' = [sessions EXCEPT ![s].selected_database_id = selected_database]
  /\ markdown' = None /\ calls' = << >> /\ result' = NoResult
  /\ UNCHANGED <<issues, release_version, now, blocks, pc, self,
                 pages, LINEAR_API_KEY, files, today, processes, invocations>>

\* "Create New Notion Page": create_release_notes_page is called with the
\* changelog and the database of the session's state.
CreatePage(s) ==
  /\ pc = "notion"
  /\ sessions[s].at = "idle"
  /\ invocations < MaxCalls
  /\ \E markdown_content \in Documents :
       sessions' = [sessions EXCEPT ![s] =
         [@ EXCEPT !.operation = "create_release_notes_page",
                   !.at = IF Truthy(sessions[s].selected_database_id)
                          THEN "databases.retrieve" ELSE "pages.create",
                   !.markdown_content = markdown_content,
                   !.database_id = sessions[s].selected_database_id,
                   !.properties = {"Name"}]]
  /\ invocations' = invocations + 1
  /\ markdown' = None /\ calls' = << >> /\ result' = NoResult
  /\ UNCHANGED <<issues, release_version, now, blocks, pc, self, failures,
                 pages, LINEAR_API_KEY, files, today, processes>>

\* The databases.retrieve call _get_database_schema makes for a given
\* database: it raises, or gives a schema without or with the date
\* properties; the date property is set when the schema has it.
GetDatabaseSchema(s) ==
  /\ pc = "notion"
  /\ sessions[s].at = "databases.retrieve"
  /\ \E schema \in { outcome \in { [ok |-> FALSE, properties |-> {}],
                                   [ok |-> TRUE,  properties |-> {}],
                                   [ok |-> TRUE,  properties |-> {"Date", "Created Date"}] } :
                      outcome.ok \in Answers } :
       /\ failures' = (IF schema.ok THEN failures ELSE failures + 1)
       /\ sessions' = [sessions EXCEPT ![s] =
            [@ EXCEPT !.at = "pages.create",
                      !.properties = {"Name"} \cup (_get_database_schema(schema)
                                                      \cap {"Date", "Created Date"}),
                      !.log = << Call("databases.retrieve", sessions[s].database_id, schema.ok) >>]]
  /\ markdown' = None /\ calls' = << >> /\ result' = NoResult
  /\ UNCHANGED <<issues, release_version, now, blocks, pc, self,
                 pages, LINEAR_API_KEY, files, today, processes, invocations>>

\* The pages.create call of create_release_notes_page: the service makes
\* one more page, under the parent given.  When the call raises,
\* create_release_notes_page ends, raising "Failed to create Notion
\* page: ...".
PagesCreate(s) ==
  /\ pc = "notion"
  /\ sessions[s].at = "pages.create"
  /\ \E created \in Answers :
       LET children == Converted(sessions[s].markdown_content)
           log == sessions[s].log \o
                  << Call("pages.create",
                          [parent |-> Parent(self, sessions[s].database_id),
                           title |-> PageTitle(release_version),
                           properties |-> sessions[s].properties,
                           children |-> children],
                          created) >>
       IN
       /\ failures' = (IF created THEN failures ELSE failures + 1)
       /\ IF created
          THEN /\ pages' = Append(pages, [parent |-> Parent(self, sessions[s].database_id),
                                            children |-> children])
               /\ sessions' = [sessions EXCEPT ![s] =
                    [@ EXCEPT !.at = "summary list", !.log = log,
                              !.page_id = Len(pages) + 1]]
               /\ markdown' = None /\ calls' = << >> /\ result' = NoResult
          ELSE /\ sessions' = [sessions EXCEPT ![s] = IdleSession(@.selected_database_id)]
               /\ markdown' = sessions[s].markdown_content
               /\ calls' = log
               /\ result' = Raised(<<"F","a","i","l","e","d"," ","t","o"," ","c","r","e","a","t","e"," ","N","o","t","i","o","n"," ","p","a","g","e",":"," ">>
                                   \o ClientError)
               /\ UNCHANGED pages
  /\ UNCHANGED <<issues, release_version, now, blocks, pc, self,
                 LINEAR_API_KEY, files, today, processes, invocations>>

\* _generate_ai_summary called on its own for a page.
GenerateSummary(s) ==
  /\ pc = "notion"
  /\ sessions[s].at = "idle"
  /\ invocations < MaxCalls
  /\ \E page_id \in 1..Len(pages), markdown_content \in Documents :
       sessions' = [sessions EXCEPT ![s] =
         [@ EXCEPT !.operation = "_generate_ai_summary",
                   !.at = "summary list",
                   !.page_id = page_id,
                   !.markdown_content = markdown_content]]
  /\ invocations' = invocations + 1
  /\ markdown' = None /\ calls' = << >> /\ result' = NoResult
  /\ UNCHANGED <<issues, release_version, now, blocks, pc, self, failures,
                 pages, LINEAR_API_KEY, files, today, processes>>

\* The blocks.children.list call of _generate_ai_summary.  When it raises,
\* or when a listed heading mentions "summary", the summary step ends here.
ListForSummary(s) ==
  /\ pc = "notion"
  /\ sessions[s].at = "summary list"
  /\ \E listed \in Answers :
       LET log == sessions[s].log \o << Call("blocks.children.list", << >>, listed) >> IN
       /\ failures' = (IF listed THEN failures ELSE failures + 1)
       /\ IF listed /\ ~ \E k \in 1..Len(pages[sessions[s].page_id].children) :
                            IsSummaryHeading(pages[sessions[s].page_id].children[k])
          THEN /\ sessions' = [sessions EXCEPT ![s] =
                    [@ EXCEPT !.at = "summary append", !.log = log]]
               /\ markdown' = None /\ calls' = << >> /\ result' = NoResult
          ELSE /\ sessions' = [sessions EXCEPT ![s] = IdleSession(@.selected_database_id)]
               /\ markdown' = sessions[s].markdown_content
               /\ calls' = log
               /\ result' = AfterSummary(sessions[s].operation, sessions[s].page_id,
                                         IF listed THEN True ELSE False)
  /\ UNCHANGED pages
  /\ UNCHANGED <<issues, release_version, now, blocks, pc, self,
                 LINEAR_API_KEY, files, today, processes, invocations>>

\* The blocks.children.append call of _generate_ai_summary: the heading,
\* the summary _create_simple_summary words, and the divider.
AppendSummary(s) ==
  /\ pc = "notion"
  /\ sessions[s].at = "summary append"
  /\ \E appended \in Answers :
       LET summary_blocks == SummaryBlocks(Summarised(sessions[s].markdown_content)) IN
       /\ failures' = (IF appended THEN failures ELSE failures + 1)
       /\ pages' = IF appended
                   THEN [pages EXCEPT ![sessions[s].page_id].children = @ \o summary_blocks]
                   ELSE pages
       /\ sessions' = [sessions EXCEPT ![s] = IdleSession(@.selected_database_id)]
       /\ markdown' = sessions[s].markdown_content
       /\ calls' = sessions[s].log \o
                   << Call("blocks.children.append", summary_blocks, appended) >>
       /\ result' = AfterSummary(sessions[s].operation, sessions[s].page_id,
                                 IF appended THEN True ELSE False)
  /\ UNCHANGED <<issues, release_version, now, blocks, pc, self,
                 LINEAR_API_KEY, files, today, processes, invocations>>

\* "Update Existing Page": the handler holds the changelog and calls
\* find_existing_page with the database of the session's state; what the
\* query is answered decides, in QueryPage, whether update_existing_page
\* is called and for which page.
UpdatePage(s) ==
  /\ pc = "notion"
  /\ sessions[s].at = "idle"
  /\ invocations < MaxCalls
  /\ \E markdown_content \in Documents :
       sessions' = [sessions EXCEPT ![s] =
         [@ EXCEPT !.operation = "Update Existing Page",
                   !.at = "query",
                   !.markdown_content = markdown_content,
                   !.database_id = sessions[s].selected_database_id]]
  /\ invocations' = invocations + 1
  /\ markdown' = None /\ calls' = << >> /\ result' = NoResult
  /\ UNCHANGED <<issues, release_version, now, blocks, pc, self, failures,
                 pages, LINEAR_API_KEY, files, today, processes>>

\* The blocks.children.list call of update_existing_page: the blocks of
\* the page are listed by their places.  A listing that raises lists
\* nothing.
ListBlocks(s) ==
  /\ pc = "notion"
  /\ sessions[s].at = "blocks.children.list"
  /\ \E listed \in Answers :
       /\ failures' = (IF listed THEN failures ELSE failures + 1)
       /\ sessions' = [sessions EXCEPT ![s] =
            [@ EXCEPT !.at = IF listed /\ pages[sessions[s].page_id].children # << >>
                             THEN "blocks.delete" ELSE "blocks.children.append",
                      !.listed = IF listed
                                 THEN [i \in 1..Len(pages[sessions[s].page_id].children) |-> i]
                                 ELSE << >>,
                      !.k = 1,
                      !.log = << Call("blocks.children.list", << >>, listed) >>]]
  /\ markdown' = None /\ calls' = << >> /\ result' = NoResult
  /\ UNCHANGED <<issues, release_version, now, blocks, pc, self,
                 pages, LINEAR_API_KEY, files, today, processes, invocations>>

\* The blocks.delete call for the k-th listed block.  A block that is on
\* the page is removed unless the call raises; for a block that another
\* call removed meanwhile the service has nothing to remove and the page
\* stays as it is.  The listings other sessions hold of the same page
\* follow the blocks that move up.
DeleteBlock(s) ==
  /\ pc = "notion"
  /\ sessions[s].at = "blocks.delete"
  /\ LET k == sessions[s].k
         place == sessions[s].listed[k]
     IN
     \E deleted \in IF place = 0 THEN {TRUE} ELSE Answers :
       LET next == NextDelete(sessions[s].listed, k, deleted)
           log == sessions[s].log \o << Call("blocks.delete", k, deleted) >>
           removed == deleted /\ place # 0
       IN
       /\ failures' = (IF deleted THEN failures ELSE failures + 1)
       /\ pages' = IF removed
                   THEN [pages EXCEPT ![sessions[s].page_id].children =
                           SubSeq(@, 1, place - 1) \o SubSeq(@, place + 1, Len(@))]
                   ELSE pages
       /\ sessions' = [t \in DOMAIN sessions |->
            IF t = s
            THEN [sessions[s] EXCEPT !.listed = IF removed THEN Shifted(@, place) ELSE @,
                                     !.k = next.k,
                                     !.at = next.at,
                                     !.log = log]
            ELSE [sessions[t] EXCEPT !.listed =
                    IF removed /\ sessions[t].page_id = sessions[s].page_id
                    THEN Shifted(@, place) ELSE @]]
  /\ markdown' = None /\ calls' = << >> /\ result' = NoResult
  /\ UNCHANGED <<issues, release_version, now, blocks, pc, self,
                 LINEAR_API_KEY, files, today, processes, invocations>>

\* The blocks.children.append call of update_existing_page.  When it
\* raises, update_existing_page ends, raising "Failed to update Notion
\* page: ...".
AppendBlocks(s) ==
  /\ pc = "notion"
  /\ sessions[s].at = "blocks.children.append"
  /\ \E appended \in Answers :
       LET children == Converted(sessions[s].markdown_content)
           log == sessions[s].log \o
                  << Call("blocks.children.append", children, appended) >>
       IN
       /\ failures' = (IF appended THEN failures ELSE failures + 1)
       /\ IF appended
          THEN /\ pages' = [pages EXCEPT ![sessions[s].page_id].children = @ \o children]
               /\ sessions' = [sessions EXCEPT ![s] =
                    [@ EXCEPT !.at = "summary list", !.log = log]]
               /\ markdown' = None /\ calls' = << >> /\ result' = NoResult
          ELSE /\ sessions' = [sessions EXCEPT ![s] = IdleSession(@.selected_database_id)]
               /\ markdown' = sessions[s].markdown_content
               /\ calls' = log
               /\ result' = Raised(<<"F","a","i","l","e","d"," ","t","o"," ","u","p","d","a","t","e"," ","N","o","t","i","o","n"," ","p","a","g","e",":"," ">>
                                   \o ClientError)
               /\ UNCHANGED pages
  /\ UNCHANGED <<issues, release_version, now, blocks, pc, self,
                 LINEAR_API_KEY, files, today, processes, invocations>>

\* find_existing_page is called with the database of the session's state.
FindPage(s) ==
  /\ pc = "notion"
  /\ sessions[s].at = "idle"
  /\ invocations < MaxCalls
  /\ sessions' = [sessions EXCEPT ![s] =
       [@ EXCEPT !.operation = "find_existing_page",
                 !.at = "query",
                 !.database_id = sessions[s].selected_database_id]]
  /\ invocations' = invocations + 1
  /\ markdown' = None /\ calls' = << >> /\ result' = NoResult
  /\ UNCHANGED <<issues, release_version, now, blocks, pc, self, failures,
                 pages, LINEAR_API_KEY, files, today, processes>>

\* The query of find_existing_page, and what follows it.  The query
\* raises, or the service answers with none, one or two of the pages that
\* exist, in the order of its choice: of the pages of the database asked,
\* and of all pages when the whole workspace is searched.
\* find_existing_page returns the first id listed, and None when the query
\* raised or listed nothing.  Called on its own it ends here; under "Update
\* Existing Page" update_existing_page is called next for the page
\* returned, and nothing is called when None was returned.
QueryPage(s) ==
  /\ pc = "notion"
  /\ sessions[s].at = "query"
  /\ LET database_id == IF Truthy(sessions[s].database_id)
                        THEN sessions[s].database_id ELSE self.database_id
         listable == { n \in 1..Len(pages) :
                         Truthy(database_id) =>
                           pages[n].parent = [key |-> "database_id", id |-> database_id] }
         listings == { << >> } \cup { << PageId(n) >> : n \in listable }
                       \cup { << PageId(pair[1]), PageId(pair[2]) >> :
                                pair \in { p \in listable \X listable : p[1] # p[2] } }
     IN
     \E response \in { answer \in { [ok |-> FALSE, results |-> << >>] }
                                    \cup { [ok |-> TRUE, results |-> results] :
                                             results \in listings } :
                        answer.ok \in Answers } :
       \E outcome \in { find_existing_page(self, release_version,
                                           sessions[s].database_id, response) } :
         /\ failures' = (IF response.ok THEN failures ELSE failures + 1)
         /\ IF sessions[s].operation = "Update Existing Page"
                 /\ Truthy(outcome.result.value)
            THEN /\ sessions' = [sessions EXCEPT ![s] =
                      [@ EXCEPT !.operation = "update_existing_page",
                                !.at = "blocks.children.list",
                                !.page_id = CHOOSE n \in 1..Len(pages) :
                                              PageId(n) = outcome.result.value]]
                 /\ markdown' = None /\ calls' = << >> /\ result' = NoResult
            ELSE /\ sessions' = [sessions EXCEPT ![s] = IdleSession(@.selected_database_id)]
                 /\ markdown' = None
                 /\ calls' = outcome.calls
                 /\ result' = outcome.result
  /\ UNCHANGED <<issues, release_version, now, blocks, pc, self,
                 pages, LINEAR_API_KEY, files, today, processes, invocations>>

SpecPage ==
  InitPage /\ [][
  \E s \in DOMAIN sessions :
    \/ SelectDatabase(s)
    \/ CreatePage(s)
    \/ GetDatabaseSchema(s)
    \/ PagesCreate(s)
    \/ GenerateSummary(s)
    \/ ListForSummary(s)
    \/ AppendSummary(s)
    \/ UpdatePage(s)
    \/ QueryPage(s)
    \/ ListBlocks(s)
    \/ DeleteBlock(s)
    \/ AppendBlocks(s)
  ]_vars

\* The operations whose parent and whose query depend on how the
\* integration is configured and on the database of the session.
\* NOTION_DATABASE_ID and NOTION_PARENT_PAGE_ID are each unset (_get_env_var
\* gives None for unset and empty) or set; the database of the session's
\* state is absent, empty, or given.
InitParent ==
  /\ issues = << >>
  /\ release_version = <<"1",".","2",".","0">>
  /\ now = None
  /\ markdown = None
  /\ blocks = << >>
  /\ pc = "notion"
  /\ self \in [ database_id : { None, <<"d","b","-","0">> },
                parent_page_id : { None, <<"p","g","-","0">> } ]
  /\ \E n \in 1..MaxSessions :
       sessions \in [1..n -> { IdleSession(selection) :
                                 selection \in { None, << >>, <<"d","b","-","1">> } }]
  /\ failures = 0
  /\ invocations = 0
  /\ pages = << >>
  /\ calls = << >>
  /\ result = NoResult
  /\ LINEAR_API_KEY = None
  /\ files = [label \in ReleaseLabels |-> NoFile]
  /\ today = 1
  /\ processes = << >>

SpecParent ==
  InitParent /\ [][
  \E s \in DOMAIN sessions :
    \/ SelectDatabase(s)
    \/ CreatePage(s)
    \/ GetDatabaseSchema(s)
    \/ PagesCreate(s)
    \/ ListForSummary(s)
    \/ AppendSummary(s)
    \/ FindPage(s)
    \/ QueryPage(s)
  ]_vars

----------------------------------------------------------------------------
(* C29: the counts of the summary, section by section.                     *)

\* The counts the sections of a changelog give when every bullet line is
\* counted under the "## " heading it follows: under one of the three named
\* headings as that kind, under any other heading as an other change.
RECURSIVE SectionScan(_, _, _, _)
SectionScan(lines, k, heading, counts) ==
  IF k > Len(lines) THEN counts
  ELSE
    LET line == Strip(lines[k]) IN
    IF StartsWith(line, <<"#","#"," ">>)
    THEN SectionScan(lines, k + 1, line, counts)
    ELSE IF StartsWith(line, <<"-"," ">>) /\ heading # << >>
    THEN SectionScan(lines, k + 1, heading,
           IF StartsWith(heading, <<"#","#"," ","U+1F41B"," ","B","u","g"," ","F","i","x","e","s">>)
           THEN [counts EXCEPT !.bug_fixes = @ + 1]
           ELSE IF StartsWith(heading, <<"#","#"," ","U+2728"," ","N","e","w"," ","F","e","a","t","u","r","e","s">>)
           THEN [counts EXCEPT !.new_features = @ + 1]
           ELSE IF StartsWith(heading, <<"#","#"," ","U+26A1"," ","I","m","p","r","o","v","e","m","e","n","t","s">>)
           THEN [counts EXCEPT !.improvements = @ + 1]
           ELSE [counts EXCEPT !.other_changes = @ + 1])
    ELSE SectionScan(lines, k + 1, heading, counts)

SectionCounts(text) == SectionScan(Split(text), 1, << >>, NoCounts)

\* The summary blocks the last operation appended, if it appended any.
AppendedSummary ==
  { calls[k].detail : k \in { n \in 1..Len(calls) :
      /\ calls[n].op = "blocks.children.append"
      /\ calls[n].ok
      /\ Len(calls[n].detail) = 3
      /\ calls[n].detail[3].type = "divider" } }

\* C29 (as stated): the summary _create_simple_summary words reports, for
\* each of bug fixes, new features and improvements, the number of bullet
\* lines between that heading and the next "## " heading, counts the bullets
\* under every other category heading as other changes, and is the generic
\* sentence exactly when the four counts add up to 0.
C29_CountsBySection ==
  pc = "notion" =>
    \A appended \in AppendedSummary :
      appended[2].rich_text[1].content = SummaryText(SectionCounts(markdown))

\* A changelog whose only section is "## Other Changes", with one bullet,
\* is summarised by the generic sentence, as if it held no change.
C29_OtherChangesUncounted ==
  /\ pc = "notion"
  /\ SectionCounts(markdown).other_changes = 1
  /\ \E appended \in AppendedSummary :
       appended[2].rich_text[1].content = GenericSummary
----------------------------------------------------------------------------
(* C25: one page creation per call, its parent by precedence, and which    *)
(* failures reach the caller.                                              *)

\* The places in a call log of the calls of one kind.
Places(log, op) == { k \in 1..Len(log) : log[k].op = op }

\* Whether an optional id was given.
Given(id) == id # None /\ id # << >>

\* The step in which the call a session is in returns or raises.
Finishes(s) == sessions[s].at # "idle" /\ sessions'[s].at = "idle"

\* C25: a call of create_release_notes_page makes exactly one pages.create
\* call; its parent is the database_id argument if given, else the default
\* database, else the parent page, else none; when the creation returns,
\* the page id is returned whatever the schema lookup and the summary step
\* did; when it raises, "Failed to create Notion page" is raised.
C25_OneCreationByPrecedence ==
  [][ \A s \in DOMAIN sessions :
        (Finishes(s) /\ sessions[s].operation = "create_release_notes_page") =>
          /\ Cardinality(Places(calls', "pages.create")) = 1
          /\ \A k \in Places(calls', "pages.create") :
               /\ calls'[k].detail.parent =
                    (IF Given(sessions[s].database_id)
                     THEN [key |-> "database_id", id |-> sessions[s].database_id]
                     ELSE IF Given(self.database_id)
                     THEN [key |-> "database_id", id |-> self.database_id]
                     ELSE IF Given(self.parent_page_id)
                     THEN [key |-> "page_id", id |-> self.parent_page_id]
                     ELSE [key |-> "none", id |-> None])
               /\ calls'[k].ok => result' = Returned(PageId(sessions[s].page_id))
               /\ ~calls'[k].ok =>
                    /\ result'.kind = "raised"
                    /\ StartsWith(result'.value, <<"F","a","i","l","e","d"," ","t","o"," ","c","r","e","a","t","e"," ","N","o","t","i","o","n"," ","p","a","g","e">>) ]_vars

\* The argument wins over both configured parents, and the page id comes
\* back although the schema lookup and the summary's append both raised.
C25_Witness ==
  /\ pc = "notion"
  /\ self = [database_id |-> <<"d","b","-","0">>, parent_page_id |-> <<"p","g","-","0">>]
  /\ Len(calls) = 4
  /\ calls[1].op = "databases.retrieve" /\ ~calls[1].ok
  /\ calls[2].op = "pages.create" /\ calls[2].ok
  /\ calls[2].detail.parent = [key |-> "database_id", id |-> <<"d","b","-","1">>]
  /\ calls[4].op = "blocks.children.append" /\ ~calls[4].ok
  /\ result = Returned(PageId(1))
----------------------------------------------------------------------------
(* C26: find_existing_page.                                                *)

\* C26: find_existing_page makes one query for the title
\* "Changelog - <release_version>", in the database of the argument if
\* given, else in the default database, else across all pages; it never
\* raises, returns the id of the first result of a non-empty answer, and
\* None for an empty answer and for a query that failed.
C26_FindNeverRaises ==
  [][ \A s \in DOMAIN sessions :
        (Finishes(s) /\ sessions[s].operation = "find_existing_page") =>
          /\ Len(calls') = 1
          /\ calls'[1].detail.title = <<"C","h","a","n","g","e","l","o","g"," ","-"," ">> \o release_version
          /\ IF Given(sessions[s].database_id)
             THEN calls'[1].op = "databases.query"
                  /\ calls'[1].detail.database_id = sessions[s].database_id
             ELSE IF Given(self.database_id)
             THEN calls'[1].op = "databases.query"
                  /\ calls'[1].detail.database_id = self.database_id
             ELSE calls'[1].op = "search"
          /\ result'.kind = "returned"
          /\ result'.value = (IF calls'[1].ok /\ calls'[1].detail.results # << >>
                              THEN Head(calls'[1].detail.results)
                              ELSE None) ]_vars

\* Called with an empty argument, the default database was queried, it
\* answered with the two pages made there, the later one first, and the
\* first one listed came back.
C26_Witness ==
  /\ pc = "notion"
  /\ \A s \in DOMAIN sessions : sessions[s].selected_database_id = << >>
  /\ Len(calls) = 1
  /\ calls[1].op = "databases.query"
  /\ calls[1].detail.database_id = <<"d","b","-","0">>
  /\ calls[1].ok
  /\ calls[1].detail.results = << PageId(2), PageId(1) >>
  /\ result = Returned(PageId(2))
----------------------------------------------------------------------------
(* C23: the order of the effects of update_existing_page.                  *)

\* What a call of update_existing_page that listed n blocks has done, in
\* order, when it ends: the listing; if it returned, one delete per listed
\* block, each attempted whatever the ones before it did; the append of the
\* new blocks; and, only if the append returned, the summary step.  True is
\* returned exactly when the append returned, and "Failed to update Notion
\* page" is raised when it did not.
UpdateOrder(n, log, outcome) ==
  LET deletes == IF log[1].ok THEN n ELSE 0 IN
  /\ Len(log) >= deletes + 2
  /\ log[1].op = "blocks.children.list"
  /\ \A k \in 1..deletes :
       log[1 + k].op = "blocks.delete" /\ log[1 + k].detail = k
  /\ log[deletes + 2].op = "blocks.children.append"
  /\ IF log[deletes + 2].ok
     THEN /\ outcome = Returned(True)
          /\ Len(log) > deletes + 2
          /\ log[deletes + 3].op = "blocks.children.list"
          /\ \A k \in (deletes + 4)..Len(log) :
               /\ log[k].op = "blocks.children.append"
               /\ log[k].detail[1].rich_text[1].content = <<"U+1F4CB"," ","R","e","l","e","a","s","e"," ","S","u","m","m","a","r","y">>
     ELSE /\ Len(log) = deletes + 2
          /\ outcome.kind = "raised"
          /\ StartsWith(outcome.value, <<"F","a","i","l","e","d"," ","t","o"," ","u","p","d","a","t","e"," ","N","o","t","i","o","n"," ","p","a","g","e">>)

\* The listing step of update_existing_page: when the listing returns,
\* every block the page holds is listed, and when it raises, none.
ListsEveryBlock(s) ==
  (sessions[s].at = "blocks.children.list" /\ sessions'[s].at # "blocks.children.list") =>
    Len(sessions'[s].listed) =
      (IF sessions'[s].log[1].ok THEN Len(pages[sessions[s].page_id].children) ELSE 0)

\* Every delete call of the log returned.
EveryDeleteReturned(log) ==
  \A k \in 1..Len(log) : log[k].op = "blocks.delete" => log[k].ok

\* The page holds exactly the blocks of the new changelog followed by its
\* summary section.
NewBlocksThenSummary(children, text) ==
  children = _markdown_to_notion_blocks(text)
             \o SummaryBlocks(_create_simple_summary(text))

\* No other session uses the application.
Alone == Cardinality(DOMAIN sessions) = 1

\* C23 (as stated): update_existing_page lists, deletes each listed block,
\* appends, then adds the summary, tolerating a failed listing and failed
\* deletes; and whenever every listed block was deleted successfully the
\* page afterwards holds exactly the new blocks followed by the summary
\* section.
C23_EveryListedDeleted ==
  [][ \A s \in DOMAIN sessions :
        /\ ListsEveryBlock(s)
        /\ (Finishes(s) /\ sessions[s].operation = "update_existing_page") =>
             /\ UpdateOrder(Len(sessions[s].listed), calls', result')
             /\ (Alone /\ result' = Returned(True) /\ EveryDeleteReturned(calls')) =>
                  NewBlocksThenSummary(pages'[sessions[s].page_id].children, markdown') ]_vars

\* A listing of update_existing_page that raises deletes nothing: the page
\* stays as it is and the append comes next; and the append, when it
\* returns, puts the new blocks behind the blocks the page holds.
FailedListingKeepsOldBlocks(s) ==
  /\ (sessions[s].at = "blocks.children.list"
        /\ sessions'[s].at # "blocks.children.list"
        /\ ~sessions'[s].log[1].ok) =>
       /\ pages' = pages
       /\ sessions'[s].at = "blocks.children.append"
       /\ sessions'[s].listed = << >>
  /\ (sessions[s].at = "blocks.children.append" /\ sessions'[s].at = "summary list") =>
       pages'[sessions[s].page_id].children =
         pages[sessions[s].page_id].children
           \o Converted(sessions[s].markdown_content)

\* The new blocks end the page, or are followed by one summary section
\* only.
NewBlocksLast(children, text) ==
  \E old \in 0..Len(children) :
    \E summary \in { << >>, SummaryBlocks(Summarised(text)) } :
      SubSeq(children, old + 1, Len(children)) = Converted(text) \o summary

\* C23 (amended): the same order and the same tolerated failures; the page
\* afterwards holds exactly the new blocks followed by the summary section
\* when the listing returned, every listed block was deleted successfully,
\* the append returned, both calls of the summary step returned, and no
\* other call changed the page between the listing and the summary.  A
\* listing that raises leaves every old block in front of the new ones; a
\* summary step one of whose calls raises leaves the new blocks without a
\* summary section; and in both cases True is still returned.
C23_ListedDeletedAppendedSummarised ==
  [][ \A s \in DOMAIN sessions :
        /\ ListsEveryBlock(s)
        /\ FailedListingKeepsOldBlocks(s)
        /\ (Finishes(s) /\ sessions[s].operation = "update_existing_page") =>
             /\ UpdateOrder(Len(sessions[s].listed), calls', result')
             /\ (/\ Alone
                 /\ result' = Returned(True)
                 /\ EveryDeleteReturned(calls')
                 /\ \A k \in 1..Len(calls') : calls'[k].ok) =>
                  NewBlocksThenSummary(pages'[sessions[s].page_id].children, markdown')
             /\ (/\ Alone
                 /\ ~calls'[1].ok
                 /\ calls'[2].ok) =>
                  /\ result' = Returned(True)
                  /\ Places(calls', "blocks.delete") = {}
                  /\ NewBlocksLast(pages'[sessions[s].page_id].children, markdown')
             /\ (/\ Alone
                 /\ calls'[1].ok
                 /\ EveryDeleteReturned(calls')
                 /\ calls'[Len(sessions[s].listed) + 2].ok
                 /\ \E k \in (Len(sessions[s].listed) + 3)..Len(calls') : ~calls'[k].ok) =>
                  /\ result' = Returned(True)
                  /\ pages'[sessions[s].page_id].children = Converted(markdown') ]_vars

\* An update of a page of seven blocks where the delete of the fifth, the
\* old summary heading, raised: the other six deletes and the append were
\* still made, True came back, and the page holds the heading that stayed
\* before the new blocks.
C23_Witness ==
  /\ pc = "notion"
  /\ Alone
  /\ Len(calls) = 10
  /\ calls[1].op = "blocks.children.list" /\ calls[1].ok
  /\ calls[6].op = "blocks.delete" /\ ~calls[6].ok
  /\ calls[8].op = "blocks.delete" /\ calls[8].ok
  /\ calls[9].op = "blocks.children.append" /\ calls[9].ok
  /\ calls[9].detail = Converted(markdown)
  /\ calls[10].op = "blocks.children.list"
  /\ result = Returned(True)
  /\ \E p \in 1..Len(pages) :
       /\ IsSummaryHeading(pages[p].children[1])
       /\ pages[p].children = << pages[p].children[1] >> \o calls[9].detail
----------------------------------------------------------------------------
(* C24: at most one summary section on a page.                             *)

\* The places of the "Release Summary" headings among the blocks.
SummaryHeadings(children) ==
  { k \in 1..Len(children) :
      /\ children[k].type = "heading_2"
      /\ \E n \in 1..Len(children[k].rich_text) :
           children[k].rich_text[n].content = <<"U+1F4CB"," ","R","e","l","e","a","s","e"," ","S","u","m","m","a","r","y">> }

\* A level-2 heading one of whose spans holds the word "summary" in any
\* mix of cases.
MentionsSummary(block) ==
  /\ block.type = "heading_2"
  /\ \E n \in 1..Len(block.rich_text) :
       LET content == block.rich_text[n].content
           word == << {"s","S"}, {"u","U"}, {"m","M"}, {"m","M"},
                      {"a","A"}, {"r","R"}, {"y","Y"} >>
       IN  \E at \in 0..Len(content) :
             /\ at + 7 <= Len(content)
             /\ \A c \in 1..7 : content[at + c] \in word[c]

\* The listing step of _generate_ai_summary, the listing having returned:
\* on a page with a level-2 heading that mentions "summary" the step ends
\* the summary, nothing is appended and _generate_ai_summary returns True;
\* on a page without one the append comes next.
SummaryListed(s) ==
  LET log == IF sessions'[s].at = "idle" THEN calls' ELSE sessions'[s].log
      children == pages[sessions[s].page_id].children
  IN
  (sessions[s].at = "summary list" /\ sessions'[s].at # "summary list"
     /\ log[Len(log)].ok) =>
    /\ log[Len(log)].op = "blocks.children.list"
    /\ pages' = pages
    /\ IF \E k \in 1..Len(children) : MentionsSummary(children[k])
       THEN /\ sessions'[s].at = "idle"
            /\ sessions[s].operation = "_generate_ai_summary" => result' = Returned(True)
       ELSE sessions'[s].at = "summary append"

\* The append step of _generate_ai_summary: the heading, a paragraph and a
\* divider are added after the blocks the page holds, and True is
\* returned; when the append raises the page stays as it is.
SummaryAppended(s) ==
  LET before == pages[sessions[s].page_id].children
      after == pages'[sessions[s].page_id].children
  IN
  (sessions[s].at = "summary append" /\ sessions'[s].at # "summary append") =>
    /\ Finishes(s)
    /\ calls'[Len(calls')].op = "blocks.children.append"
    /\ calls'[Len(calls')].ok =>
         /\ Len(after) = Len(before) + 3
         /\ SubSeq(after, 1, Len(before)) = before
         /\ SummaryHeadings(after) \ SummaryHeadings(before) = { Len(before) + 1 }
         /\ after[Len(before) + 2].type = "paragraph"
         /\ after[Len(before) + 3].type = "divider"
         /\ \A p \in 1..Len(pages) : p # sessions[s].page_id => pages'[p] = pages[p]
         /\ sessions[s].operation = "_generate_ai_summary" => result' = Returned(True)
    /\ ~calls'[Len(calls')].ok => pages' = pages

\* C24: whatever sequence of create_release_notes_page, update_existing_page
\* (each after the find_existing_page that gave its page) and
\* _generate_ai_summary calls was made one after the other, every page
\* holds at most one "Release Summary" heading, and the summary is about to
\* be appended only to a page without a level-2 heading that mentions
\* "summary"; _generate_ai_summary appends nothing and returns True when it
\* lists such a heading, and appends its heading, paragraph and divider
\* after the blocks of the page otherwise.
C24_AtMostOneSummary ==
  /\ [](Alone => \A p \in 1..Len(pages) :
          Cardinality(SummaryHeadings(pages[p].children)) <= 1)
  /\ [](Alone => \A s \in DOMAIN sessions :
          sessions[s].at = "summary append" =>
            ~ \E k \in 1..Len(pages[sessions[s].page_id].children) :
                MentionsSummary(pages[sessions[s].page_id].children[k]))
  /\ [][ \A s \in DOMAIN sessions : SummaryListed(s) /\ SummaryAppended(s) ]_vars

\* The summary step ran on its own on a page that already held the
\* summary section of an earlier changelog: it listed, appended nothing,
\* returned True, and the page still holds the one heading.
C24_Witness ==
  /\ pc = "notion"
  /\ Alone
  /\ Len(calls) = 1
  /\ calls[1].op = "blocks.children.list" /\ calls[1].ok
  /\ result = Returned(True)
  /\ \E p \in 1..Len(pages) :
       /\ Len(pages[p].children) = 7
       /\ SummaryHeadings(pages[p].children) = {5}
       /\ pages[p].children[6].rich_text[1].content # _create_simple_summary(markdown)
----------------------------------------------------------------------------
(* C28: the application's renderer and the scheduler's.                    *)

\* C28: for the issue list, the release version and the clock reading the
\* changelog was rendered from by app.py's generate_release_notes,
\* scheduler.py's generate_release_notes returns the same string.
C28_SameNotes ==
  pc = "markdown" =>
    markdown = scheduler_generate_release_notes(issues, release_version, now)

\* Two issues were rendered, one of them excluded by its state and the
\* other shown with its own URL, and the scheduler's renderer gives the
\* very same changelog.
C28_Witness ==
  /\ pc = "markdown"
  /\ Len(issues) = 2
  /\ should_exclude_issue(issues[1])
  /\ ~should_exclude_issue(issues[2])
  /\ Truthy(issues[2].url)
  /\ markdown # NoIssuesFound
  /\ scheduler_generate_release_notes(issues, release_version, now) = markdown

----------------------------------------------------------------------------
(* The scheduler's daily job: generate_daily_release_notes asks Linear for *)
(* the release labels and writes releases/changelog-<label>.md for each    *)
(* label whose file was not already written today.                         *)

\* The days the job is followed over.
MaxDays == 2

\* os.path.join('releases', f"changelog-{release_version}.md")
FilePath(version) ==
  <<"r","e","l","e","a","s","e","s","/","c","h","a","n","g","e","l","o","g","-">>
    \o version \o <<".","m","d">>

\* The fields of a name between its dots.
RECURSIVE DotFields(_, _)
DotFields(name, field) ==
  IF name = << >> THEN << field >>
  ELSE IF Head(name) = "." THEN << field >> \o DotFields(Tail(name), << >>)
  ELSE DotFields(Tail(name), Append(field, Head(name)))

\* release_pattern.match(name) for ^\d+\.\d+\.\d+$ ; $ also matches before
\* one final newline.
release_pattern(name) ==
  LET body == IF name # << >> /\ name[Len(name)] = "\n"
              THEN SubSeq(name, 1, Len(name) - 1) ELSE name
      fields == DotFields(body, << >>)
  IN  /\ Len(fields) = 3
      /\ \A f \in 1..3 :
           /\ fields[f] # << >>
           /\ \A c \in 1..Len(fields[f]) :
                fields[f][c] \in Digits

\* What make_linear_request gives: requests.post or response.json() raises,
\* or the reply is a dict with 'errors', or a dict with the nodes asked for.
Reply(kind, nodes) == [kind |-> kind, nodes |-> nodes]

\* What the labels request is answered with: the names are release labels
\* and other labels.
LabelReplies ==
  LET a == <<"1",".","2",".","0">>
      b == <<"2",".","0",".","0">>
      c == <<"B","u","g">>
      d == <<"2",".","0">>
  IN  { Reply("raises", << >>), Reply("errors", << >>) }
        \cup { Reply("data", names) :
                 names \in { << >>, << a >>, << a, b >>, << b, a >>, << a, a >>,
                             << c, b >>, << d, c >> } }

\* The issues Linear answers with for a release label.
LabelIssues ==
  << [identifier |-> IdentifierOf(1), title |-> TitleOf(1), url |-> None,
      state |-> <<"D","o","n","e">>, labels |-> << <<"B","u","g">> >>] >>

IssueReplies ==
  { Reply("raises", << >>), Reply("errors", << >>),
    Reply("data", << >>), Reply("data", LabelIssues) }

\* What happens inside save_release_notes.
SaveOutcomes == { "ok", "makedirs raises", "open raises", "write raises" }

get_recent_releases(reply) ==
  IF reply.kind = "raises"
  THEN Raised(<<"C","o","n","n","e","c","t","i","o","n","E","r","r","o","r">>)
  ELSE IF reply.kind = "errors" THEN Returned(<< >>)
  ELSE Returned(SelectSeq(reply.nodes, release_pattern))

get_issues_by_label(reply) ==
  IF reply.kind = "raises"
  THEN Raised(<<"C","o","n","n","e","c","t","i","o","n","E","r","r","o","r">>)
  ELSE IF reply.kind = "errors" THEN Returned(<< >>)
  ELSE Returned(reply.nodes)

\* The changelog of a release label as the job renders it at 09:00 of a
\* day: generate_release_notes with what strftime gives then.
LabelNotes ==
  [release_label \in ReleaseLabels, day \in 1..(MaxDays + 1) |->
     scheduler_generate_release_notes(
       LabelIssues, release_label,
       <<"2","0","2","6","-","1","1","-","0">> \o Decimal(day)
         \o <<" ","0","9",":","0","0",":","0","0">>)]

\* save_release_notes: os.makedirs is outside the try; open(filepath, 'w')
\* truncates the file before anything is written.
save_release_notes(saved, version, content, outcome, day) ==
  IF outcome = "makedirs raises"
  THEN [files |-> saved, result |-> Raised(<<"O","S","E","r","r","o","r">>)]
  ELSE IF outcome = "open raises"
  THEN [files |-> saved, result |-> Returned(None)]
  ELSE IF outcome = "write raises"
  THEN [files |-> [saved EXCEPT ![version] =
                     [modified |-> day, content |-> << >>]],
        result |-> Returned(None)]
  ELSE [files |-> [saved EXCEPT ![version] =
                     [modified |-> day, content |-> content]],
        result |-> Returned(FilePath(version))]

\* os.path.exists(filepath) and file_mtime.date() == datetime.now().date()
GeneratedToday(saved, release_label, day) ==
  /\ saved[release_label].modified # 0
  /\ saved[release_label].modified = day

\* The processes that run the job at once: the scheduler main keeps
\* running and a run started with --run-once.
MaxProcesses == 2

\* A process outside a run of the job.  Inside a run it holds the release
\* labels the tracker answered (release_labels), the place of the loop (k),
\* the changelog rendered for the label at hand (release_notes), where the
\* run stands (at) and the requests and saves it has made so far (log).
IdleRun ==
  [at |-> "idle", release_labels |-> << >>, k |-> 0, release_notes |-> None,
   log |-> << >>]

InitJob ==
  /\ issues = << >>
  /\ release_version = None
  /\ now = None
  /\ markdown = None
  /\ blocks = << >>
  /\ pc = "scheduler"
  /\ self = [database_id |-> None, parent_page_id |-> None]
  /\ sessions = << >>
  /\ failures = 0
  /\ invocations = 0
  /\ pages = << >>
  /\ calls = << >>
  /\ result = NoResult
  /\ LINEAR_API_KEY \in { None, << >>, <<"l","i","n","_","k","e","y">> }
  /\ files = [label \in ReleaseLabels |-> NoFile]
  /\ today = 1
  /\ \E n \in 1..MaxProcesses : processes = [r \in 1..n |-> IdleRun]

\* generate_daily_release_notes is entered, by `--run-once` or by the
\* schedule: without a key it returns at once; with one, get_recent_releases
\* posts the labels request and the process waits for the reply.
RunJob(r) ==
  /\ pc = "scheduler"
  /\ processes[r].at = "idle"
  /\ IF ~Truthy(LINEAR_API_KEY)
     THEN /\ result' = Returned(None)
          /\ UNCHANGED processes
     ELSE /\ processes' = [processes EXCEPT ![r].at = "labels"]
          /\ UNCHANGED result
  /\ UNCHANGED <<issues, release_version, now, markdown, blocks, pc, self,
                 sessions, failures, invocations, pages, calls, LINEAR_API_KEY,
                 files, today>>

\* The labels request is answered or raises.  The exception is caught by
\* the try around the run, and a run without release labels returns; the
\* loop over the release labels begins otherwise.
LabelsReply(r) ==
  /\ pc = "scheduler"
  /\ processes[r].at = "labels"
  /\ \E reply \in LabelReplies :
       LET release_labels == get_recent_releases(reply) IN
       IF release_labels.kind = "raised" \/ release_labels.value = << >>
       THEN /\ processes' = [processes EXCEPT ![r] = IdleRun]
            /\ result' = Returned(None)
       ELSE /\ processes' = [processes EXCEPT ![r] =
                 [IdleRun EXCEPT !.at = "label",
                                 !.release_labels = release_labels.value,
                                 !.k = 1,
                                 !.log = << Call("labels", release_labels.value, TRUE) >>]]
            /\ UNCHANGED result
  /\ UNCHANGED <<issues, release_version, now, markdown, blocks, pc, self,
                 sessions, failures, invocations, pages, calls, LINEAR_API_KEY,
                 files, today>>

\* The head of the loop: after the last label the run returns; a label
\* whose file exists and is dated as the clock reads now is skipped; for
\* any other label get_issues_by_label posts the issues request and the
\* process waits for the reply.
NextLabel(r) ==
  /\ pc = "scheduler"
  /\ processes[r].at = "label"
  /\ IF processes[r].k > Len(processes[r].release_labels)
     THEN /\ processes' = [processes EXCEPT ![r] = IdleRun]
          /\ result' = Returned(None)
     ELSE /\ processes' = IF GeneratedToday(files, processes[r].release_labels[processes[r].k], today)
                     THEN [processes EXCEPT ![r].k = @ + 1]
                     ELSE [processes EXCEPT ![r].at = "issues"]
          /\ UNCHANGED result
  /\ UNCHANGED <<issues, release_version, now, markdown, blocks, pc, self,
                 sessions, failures, invocations, pages, calls, LINEAR_API_KEY,
                 files, today>>

\* The issues request of the label at hand is answered or raises.  The
\* exception leaves the loop and is caught by the try around the run, which
\* returns; without issues the loop goes on; with issues the changelog is
\* rendered, with the clock as it reads now, and save_release_notes is
\* called.
IssuesReply(r) ==
  /\ pc = "scheduler"
  /\ processes[r].at = "issues"
  /\ \E reply \in IssueReplies :
       LET release_label == processes[r].release_labels[processes[r].k]
           fetched == get_issues_by_label(reply)
           fetch == Call("issues",
                         [release_label |-> release_label,
                          issues |-> IF fetched.kind = "returned"
                                     THEN fetched.value ELSE << >>],
                         fetched.kind = "returned")
       IN
       IF fetched.kind = "raised"
       THEN /\ processes' = [processes EXCEPT ![r] = IdleRun]
            /\ result' = Returned(None)
       ELSE /\ processes' = [processes EXCEPT ![r] =
                 IF fetched.value = << >>
                 THEN [processes[r] EXCEPT !.at = "label", !.k = @ + 1,
                                      !.log = Append(@, fetch)]
                 ELSE [processes[r] EXCEPT !.at = "save",
                                      !.release_notes = LabelNotes[release_label, today],
                                      !.log = Append(@, fetch)]]
            /\ UNCHANGED result
  /\ UNCHANGED <<issues, release_version, now, markdown, blocks, pc, self,
                 sessions, failures, invocations, pages, calls, LINEAR_API_KEY,
                 files, today>>

\* save_release_notes for the label at hand.  An exception of os.makedirs
\* leaves the loop and the run returns; whatever open and write do, the
\* loop goes on.
SaveNotes(r) ==
  /\ pc = "scheduler"
  /\ processes[r].at = "save"
  /\ \E outcome \in SaveOutcomes :
       LET release_label == processes[r].release_labels[processes[r].k]
           done == save_release_notes(files, release_label, processes[r].release_notes,
                                      outcome, today)
           save == Call("save",
                        [release_version |-> release_label,
                         content |-> processes[r].release_notes,
                         outcome |-> outcome],
                        done.result.kind = "returned" /\ done.result.value # None)
       IN
       /\ files' = done.files
       /\ IF done.result.kind = "raised"
          THEN /\ processes' = [processes EXCEPT ![r] = IdleRun]
               /\ result' = Returned(None)
          ELSE /\ processes' = [processes EXCEPT ![r] =
                    [processes[r] EXCEPT !.at = "label", !.k = @ + 1,
                                    !.release_notes = None,
                                    !.log = Append(@, save)]]
               /\ UNCHANGED result
  /\ UNCHANGED <<issues, release_version, now, markdown, blocks, pc, self,
                 sessions, failures, invocations, pages, calls, LINEAR_API_KEY,
                 today>>

\* Midnight passes.
NextDay ==
  /\ pc = "scheduler"
  /\ today < MaxDays
  /\ today' = today + 1
  /\ UNCHANGED <<issues, release_version, now, markdown, blocks, pc, self,
                 sessions, failures, invocations, pages, calls, result,
                 LINEAR_API_KEY, files, processes>>

SpecJob ==
  InitJob /\ [][
    \/ NextDay
    \/ \E r \in DOMAIN processes :
         \/ RunJob(r)
         \/ LabelsReply(r)
         \/ NextLabel(r)
         \/ IssuesReply(r)
         \/ SaveNotes(r)
  ]_vars

----------------------------------------------------------------------------
(* Claims about the scheduler's daily job.                                 *)

\* A step of the run of process r.
RunSteps(r) == processes'[r] # processes[r]

\* The step in which the run of process r returns to its caller.
RunReturns(r) == processes[r].at # "idle" /\ processes'[r].at = "idle"

\* Every release label of the list of a run has had its turn: the loop is
\* past it, or stands at it with its issues requested.
EveryLabelReached(r) ==
  \A j \in 1..Len(processes[r].release_labels) :
    \/ j < processes[r].k
    \/ j = processes[r].k /\ processes[r].at \in {"issues", "save"}

\* C27 (as stated): in generate_daily_release_notes a release label whose
\* changelog file is dated today is skipped, with no fetch and no write; a
\* changelog file that is opened for writing was not written earlier that
\* day, however often the job runs; a label whose file is absent or older
\* is fetched, every label of the list having its turn, and, when it has
\* issues, its file is rewritten; and with LINEAR_API_KEY unset no request
\* is made and no file written.
C27_WrittenOncePerDay ==
  [][ /\ \A r \in DOMAIN processes :
           /\ (processes[r].at = "label" /\ RunSteps(r)
                 /\ processes[r].k <= Len(processes[r].release_labels)) =>
                IF files[processes[r].release_labels[processes[r].k]].modified = today
                THEN /\ processes'[r] = [processes[r] EXCEPT !.k = @ + 1]
                     /\ files' = files
                ELSE processes'[r].at = "issues"
           /\ RunReturns(r) => EveryLabelReached(r)
           /\ (processes[r].at = "issues" /\ RunSteps(r) /\ ~RunReturns(r)
                 /\ processes'[r].log[Len(processes'[r].log)].detail.issues # << >>) =>
                processes'[r].at = "save"
           /\ (processes[r].at = "save" /\ RunSteps(r)) =>
                /\ files[processes[r].release_labels[processes[r].k]].modified # today
                /\ files'[processes[r].release_labels[processes[r].k]] =
                     [modified |-> today, content |-> processes[r].release_notes]
      /\ ~Truthy(LINEAR_API_KEY) =>
           /\ \A r \in DOMAIN processes : processes'[r].at = "idle"
           /\ files' = files
    ]_vars

\* What holds of every step of a run: a label whose file is dated today is
\* skipped with no fetch and no write, a label whose file is absent or older
\* has its issues requested next, a reply with issues is followed by the
\* save, a file is written only by the save of its own label, and without
\* a key no request is made and no file written.
C27_SkipsWhatIsDatedToday ==
  [][ /\ \A r \in DOMAIN processes :
           /\ (processes[r].at = "label" /\ RunSteps(r)
                 /\ processes[r].k <= Len(processes[r].release_labels)) =>
                IF files[processes[r].release_labels[processes[r].k]].modified = today
                THEN /\ processes'[r] = [processes[r] EXCEPT !.k = @ + 1]
                     /\ files' = files
                ELSE processes'[r].at = "issues"
           /\ (processes[r].at = "issues" /\ RunSteps(r) /\ ~RunReturns(r)
                 /\ processes'[r].log[Len(processes'[r].log)].detail.issues # << >>) =>
                processes'[r].at = "save"
           /\ (RunSteps(r) /\ processes[r].at # "save") => files' = files
           /\ (RunSteps(r) /\ processes[r].at = "save") =>
                \A label \in ReleaseLabels \ { processes[r].release_labels[processes[r].k] } :
                  files'[label] = files[label]
      /\ ~Truthy(LINEAR_API_KEY) =>
           /\ \A r \in DOMAIN processes : processes'[r].at = "idle"
           /\ files' = files
    ]_vars

\* Two runs overlap: both found no file of the label dated today, one has
\* written it since, and the other stands before its own save of it.
C27_SecondWriteAhead ==
  /\ pc = "scheduler"
  /\ \E r \in DOMAIN processes :
       /\ processes[r].at = "save"
       /\ files[processes[r].release_labels[processes[r].k]] =
            [modified |-> today, content |-> processes[r].release_notes]

\* C30: a run of generate_daily_release_notes returns to its caller, and
\* every release label of the list is processed whatever happened to the
\* labels before it: it is skipped for its file dated today, or its issues
\* are requested.
C30_LabelsIndependent ==
  [][ \A r \in DOMAIN processes :
        RunReturns(r) => /\ result'.kind = "returned"
                         /\ EveryLabelReached(r) ]_vars

\* What holds of every run: it returns to its caller.
C30_NeverPropagates ==
  pc = "scheduler" => result.kind \in {"none", "returned"}
====
